---- MODULE Spec2Model ----
(***************************************************************************)
(* Model of the deterministic financial-scoring core of the Credit         *)
(* Decision Coach backend (backend/app/core/calculations.py) and of the    *)
(* route handlers that call it.                                            *)
(*                                                                         *)
(* Python floats are modelled as exact rationals [num, den] (den > 0, in   *)
(* lowest terms).  Where Python rounds a float (round(x), round(x, k)) the *)
(* result is the nearest value; when the exact value lies on a tie the     *)
(* float that Python actually rounds is the exact value plus or minus an   *)
(* accumulated representation error, so the direction is decided by that   *)
(* error.  It is the parameter err (-1 below, 1 above, 0 exact: banker's   *)
(* rounding), chosen nondeterministically by the calling action.           *)
(***************************************************************************)
EXTENDS Integers, Sequences, FiniteSets, TLC

VARIABLES call, ret, catalogs, threads, users, profiles, requests

vars == <<call, ret, catalogs, threads, users, profiles, requests>>

\* The state outside a single call of a function or a handler: the module-level
\* catalogs, the calls in flight, the store's collections and the requests
\* the workers are serving.
shared == <<catalogs, threads, users, profiles, requests>>

(***************************************************************************)
(* Bounds of the model.                                                    *)
(***************************************************************************)
MaxLoans == 40
MaxMissed == 20
MaxTenure == 3
MaxChiProbe == 110
MaxAlerts == 3
\* characters of a password that are not its padding of letters
MaxTail == 2

FloatErr == {-1, 0, 1}

(***************************************************************************)
(* Exact rational arithmetic standing for float arithmetic.                *)
(***************************************************************************)
Abs(x) == IF x < 0 THEN -x ELSE x

RECURSIVE GCD(_, _)
GCD(a, b) == IF b = 0 THEN a ELSE GCD(b, a % b)

Rat(n, d) ==
  LET g == GCD(Abs(n), Abs(d))
      s == IF d < 0 THEN -1 ELSE 1
  IN  [num |-> s * (n \div g), den |-> s * (d \div g)]

RInt(k) == [num |-> k, den |-> 1]
RAdd(x, y) == Rat(x.num * y.den + y.num * x.den, x.den * y.den)
RSub(x, y) == Rat(x.num * y.den - y.num * x.den, x.den * y.den)
\* cross-cancelled before multiplying, to keep the intermediate terms small
RMul(x, y) ==
  LET g1 == GCD(Abs(x.num), y.den)
      g2 == GCD(Abs(y.num), x.den)
  IN  Rat((x.num \div g1) * (y.num \div g2), (x.den \div g2) * (y.den \div g1))
RDiv(x, y) == RMul(x, [num |-> (IF y.num < 0 THEN -1 ELSE 1) * y.den, den |-> Abs(y.num)])
RLess(x, y) == x.num * y.den < y.num * x.den
RLeq(x, y) == x.num * y.den <= y.num * x.den
RMax(x, y) == IF RLess(x, y) THEN y ELSE x

\* Python round(x): nearest integer to the float x, whose exact value is q
\* up to a representation error of sign err.
round_float(q, err) ==
  LET fl == q.num \div q.den
      r2 == 2 * (q.num - fl * q.den)
  IN  IF r2 < q.den THEN fl
      ELSE IF r2 > q.den THEN fl + 1
      ELSE IF err < 0 THEN fl
      ELSE IF err > 0 THEN fl + 1
      ELSE IF fl % 2 = 0 THEN fl ELSE fl + 1

\* Python round(x, ndigits) with scale = 10^ndigits.
round_ndigits(q, scale, err) == Rat(round_float(RMul(q, RInt(scale)), err), scale)

(***************************************************************************)
(* Arbitrary-precision naturals (little-endian sequences of limbs below    *)
(* Base), for the powers (1 + monthly_rate)^tenure of the annuity formula, *)
(* which leave the range of machine integers.                              *)
(***************************************************************************)
Base == 10000

RECURSIVE BigFromInt(_)
BigFromInt(k) == IF k = 0 THEN <<>> ELSE <<k % Base>> \o BigFromInt(k \div Base)

RECURSIVE BigStrip(_)
BigStrip(x) ==
  IF x = <<>> THEN x
  ELSE IF x[Len(x)] = 0 THEN BigStrip(SubSeq(x, 1, Len(x) - 1))
  ELSE x

RECURSIVE BigAddC(_, _, _)
BigAddC(x, y, c) ==
  IF x = <<>> /\ y = <<>> THEN BigFromInt(c)
  ELSE IF x = <<>> THEN <<(Head(y) + c) % Base>> \o BigAddC(x, Tail(y), (Head(y) + c) \div Base)
  ELSE IF y = <<>> THEN <<(Head(x) + c) % Base>> \o BigAddC(Tail(x), y, (Head(x) + c) \div Base)
  ELSE <<(Head(x) + Head(y) + c) % Base>>
         \o BigAddC(Tail(x), Tail(y), (Head(x) + Head(y) + c) \div Base)

BigAdd(x, y) == BigAddC(x, y, 0)

\* x - y for x >= y
RECURSIVE BigSubB(_, _, _)
BigSubB(x, y, borrow) ==
  IF x = <<>> THEN x
  ELSE LET t == Head(x) - (IF y = <<>> THEN 0 ELSE Head(y)) - borrow
       IN  <<IF t < 0 THEN t + Base ELSE t>>
             \o BigSubB(Tail(x), IF y = <<>> THEN y ELSE Tail(y), IF t < 0 THEN 1 ELSE 0)

BigSub(x, y) == BigStrip(BigSubB(x, y, 0))

RECURSIVE BigCmpAt(_, _, _)
BigCmpAt(x, y, i) ==
  IF i = 0 THEN 0
  ELSE IF x[i] < y[i] THEN -1
  ELSE IF x[i] > y[i] THEN 1
  ELSE BigCmpAt(x, y, i - 1)

\* -1, 0, 1 as x <, =, > y
BigCmp(x, y) ==
  IF Len(x) < Len(y) THEN -1
  ELSE IF Len(x) > Len(y) THEN 1
  ELSE BigCmpAt(x, y, Len(x))

RECURSIVE BigMulLimb(_, _, _)
BigMulLimb(x, k, c) ==
  IF x = <<>> THEN BigFromInt(c)
  ELSE <<(Head(x) * k + c) % Base>> \o BigMulLimb(Tail(x), k, (Head(x) * k + c) \div Base)

\* schoolbook product, one limb of y at a time
RECURSIVE BigMulBy(_, _)
BigMulBy(x, y) ==
  IF y = <<>> THEN y
  ELSE BigAddC(BigMulLimb(x, Head(y), 0), <<0>> \o BigMulBy(x, Tail(y)), 0)

BigMul(x, y) == BigStrip(IF Len(x) < Len(y) THEN BigMulBy(y, x) ELSE BigMulBy(x, y))

\* x^n by repeated squaring
RECURSIVE BigPow(_, _)
BigPow(x, n) ==
  IF n = 0 THEN <<1>>
  ELSE IF n % 2 = 1 THEN BigMul(x, BigPow(x, n - 1))
  ELSE BigPow(BigMul(x, x), n \div 2)

\* long division in decimal: quotient (a machine integer) and remainder of
\* n by d, from those of n by 10 * d
RECURSIVE BigDivMod(_, _)
BigDivMod(n, d) ==
  IF BigCmp(n, d) < 0 THEN [quot |-> 0, rem |-> n]
  ELSE LET s == BigDivMod(n, BigStrip(BigMulLimb(d, 10, 0)))
           digit == Cardinality({j \in 1..9 :
                                   BigCmp(BigStrip(BigMulLimb(d, j, 0)), s.rem) <= 0})
       IN  [quot |-> 10 * s.quot + digit,
            rem |-> BigSub(s.rem, BigStrip(BigMulLimb(d, digit, 0)))]

\* the integer nearest to n / d (n >= 0, d > 0), ties as in round_float
BigRoundDiv(n, d, err) ==
  LET qr == BigDivMod(n, d)
      fl == qr.quot
      c == BigCmp(BigStrip(BigMulLimb(qr.rem, 2, 0)), d)
  IN  IF c < 0 THEN fl
      ELSE IF c > 0 THEN fl + 1
      ELSE IF err < 0 THEN fl
      ELSE IF err > 0 THEN fl + 1
      ELSE IF fl % 2 = 0 THEN fl ELSE fl + 1

(***************************************************************************)
(* Outcome of a Python call: a returned value or a raised exception.       *)
(***************************************************************************)
\* a float
Returned(v) == [raised |-> "none", value |-> v]
Raised(e) == [raised |-> e, value |-> RInt(0)]
\* an int
ReturnedInt(k) == [raised |-> "none", int |-> k]
\* a str
ReturnedStr(t) == [raised |-> "none", str |-> t]
\* nothing returned yet
NoResult == [raised |-> "none"]

(***************************************************************************)
(* calculations.py: Loan Amortization Calculator.                          *)
(***************************************************************************)
\* Python x / y on floats
PyDiv(x, y) == IF y.num = 0 THEN Raised("ZeroDivisionError") ELSE Returned(RDiv(x, y))

\* An interest rate is a float of any magnitude: the rational q scaled by
\* 2^-e2, so that rates below the precision of a double have a representation.
Scaled(q, e2) == [num |-> q.num, den |-> q.den, e2 |-> e2]

monthly_rate(annual_rate) ==
  Scaled(RDiv(RDiv(Rat(annual_rate.num, annual_rate.den), RInt(12)), RInt(100)),
         annual_rate.e2)

\* the denominator of a scaled rate as a natural: den * 2^e2
scaled_den(rate) == BigMul(BigFromInt(rate.den), BigPow(<<2>>, rate.e2))

\* 1 + rate in double precision, for rate >= 0, as a fraction of two naturals:
\* the 53-bit significand of 1.0 absorbs an addend of at most 2^-53 (a tie at
\* exactly 2^-53 goes to the even neighbour, 1.0)
float_one_plus(rate) ==
  IF BigCmp(BigStrip(BigMul(BigFromInt(rate.num), BigPow(<<2>>, 53))), scaled_den(rate)) <= 0
  THEN [num |-> <<1>>, den |-> <<1>>]
  ELSE [num |-> BigAdd(BigFromInt(rate.num), scaled_den(rate)), den |-> scaled_den(rate)]

\* math.pow(1 + rate, tenure_months) as a fraction of two naturals
pow_one_plus(rate, tenure_months) ==
  LET up == BigPow(float_one_plus(rate).num, Abs(tenure_months))
      dn == BigPow(float_one_plus(rate).den, Abs(tenure_months))
  IN  IF tenure_months >= 0 THEN [num |-> up, den |-> dn] ELSE [num |-> dn, den |-> up]

\* (principal * rate * pw) / (pw - 1), rounded to 2 decimals, for rate > 0
annuity(principal, rate, pw, err) ==
  LET c == BigCmp(pw.num, pw.den)
      sgn == (IF principal < 0 THEN -1 ELSE 1) * c
      n == BigMul(BigMul(BigFromInt(100 * Abs(principal)), BigFromInt(rate.num)), pw.num)
      d == BigMul(scaled_den(rate),
                  IF c > 0 THEN BigSub(pw.num, pw.den) ELSE BigSub(pw.den, pw.num))
  IN  IF c = 0 THEN Raised("ZeroDivisionError")
      ELSE Returned(Rat(sgn * BigRoundDiv(n, d, sgn * err), 100))

\* the soft-fail guard written with "and" for "or"
calculate_emi_guard_and(principal, annual_rate, tenure_months, err) ==
  IF principal <= 0 /\ tenure_months <= 0 THEN Returned(RInt(0))
  ELSE IF RLeq(annual_rate, RInt(0)) THEN PyDiv(RInt(principal), RInt(tenure_months))
  ELSE annuity(principal, monthly_rate(annual_rate),
               pow_one_plus(monthly_rate(annual_rate), tenure_months), err)

\* the interest-free test written strictly: a zero rate reaches the annuity formula
calculate_emi_rate_strict(principal, annual_rate, tenure_months, err) ==
  IF principal <= 0 \/ tenure_months <= 0 THEN Returned(RInt(0))
  ELSE IF RLess(annual_rate, RInt(0)) THEN PyDiv(RInt(principal), RInt(tenure_months))
  ELSE annuity(principal, monthly_rate(annual_rate),
               pow_one_plus(monthly_rate(annual_rate), tenure_months), err)

calculate_emi(principal, annual_rate, tenure_months, err) ==
  IF principal <= 0 \/ tenure_months <= 0 THEN Returned(RInt(0))
  ELSE IF RLeq(annual_rate, RInt(0)) THEN PyDiv(RInt(principal), RInt(tenure_months))
  ELSE annuity(principal, monthly_rate(annual_rate),
               pow_one_plus(monthly_rate(annual_rate), tenure_months), err)

calculate_total_interest(principal, emi, tenure_months, err) ==
  LET total_payment == RMul(emi, RInt(tenure_months))
  IN  round_ndigits(RSub(total_payment, RInt(principal)), 100, err)

(***************************************************************************)
(* calculations.py: Composite Scorer (CHI engine).                         *)
(***************************************************************************)
score_component(credit_score) ==
  RMul(RDiv(RInt(credit_score), RInt(900)), RInt(40))

\* the clamp at zero forgotten
emi_component_unclamped(emi_to_income_ratio) ==
  RMul(RSub(RInt(1), RDiv(emi_to_income_ratio, RInt(100))), RInt(30))

\* the component kept positive by abs() and not by max(0, .)
emi_component_abs(emi_to_income_ratio) ==
  RMax(RMul(RSub(RInt(1), RDiv(emi_to_income_ratio, RInt(100))), RInt(30)),
       RMul(RSub(RDiv(emi_to_income_ratio, RInt(100)), RInt(1)), RInt(30)))

emi_component(emi_to_income_ratio) ==
  RMax(RInt(0), RMul(RSub(RInt(1), RDiv(emi_to_income_ratio, RInt(100))), RInt(30)))

\* the clamp at zero forgotten
loan_component_unclamped(active_loans) ==
  RMul(RSub(RInt(1), RDiv(RInt(active_loans), RInt(10))), RInt(15))

loan_component(active_loans) ==
  RMax(RInt(0), RMul(RSub(RInt(1), RDiv(RInt(active_loans), RInt(10))), RInt(15)))

payment_component(missed_payments) ==
  RMax(RInt(0), RMul(RSub(RInt(1), RDiv(RInt(missed_payments), RInt(5))), RInt(15)))

\* chi before round(chi): the float the last line of calculate_chi rounds
chi_sum(credit_score, emi_to_income_ratio, active_loans, missed_payments) ==
  RAdd(RAdd(RAdd(score_component(credit_score), emi_component(emi_to_income_ratio)),
            loan_component(active_loans)),
       payment_component(missed_payments))

calculate_chi(credit_score, emi_to_income_ratio, active_loans, missed_payments, err) ==
  LET chi == RAdd(RAdd(RAdd(score_component(credit_score),
                            emi_component(emi_to_income_ratio)),
                       loan_component(active_loans)),
                  payment_component(missed_payments))
  IN  round_float(chi, err)

get_chi_breakdown(credit_score, emi_to_income_ratio, active_loans, missed_payments, err) ==
  [credit_score |->
     [value |-> credit_score,
      component_score |-> round_ndigits(score_component(credit_score), 10, err),
      max_score |-> 40, weight |-> "40%"],
   emi_ratio |->
     [value |-> emi_to_income_ratio,
      component_score |-> round_ndigits(emi_component(emi_to_income_ratio), 10, err),
      max_score |-> 30, weight |-> "30%"],
   active_loans |->
     [value |-> active_loans,
      component_score |-> round_ndigits(loan_component(active_loans), 10, err),
      max_score |-> 15, weight |-> "15%"],
   missed_payments |->
     [value |-> missed_payments,
      component_score |-> round_ndigits(payment_component(missed_payments), 10, err),
      max_score |-> 15, weight |-> "15%"]]

\* strict comparison at the upper threshold
get_risk_level_strict(chi_score) ==
  IF chi_score > 70 THEN "low"
  ELSE IF chi_score >= 40 THEN "medium"
  ELSE "high"

get_risk_level(chi_score) ==
  IF chi_score >= 70 THEN "low"
  ELSE IF chi_score >= 40 THEN "medium"
  ELSE "high"

\* the ratio capped at 100 percent
calculate_emi_to_income_ratio_capped(emi, monthly_income, err) ==
  IF RLeq(monthly_income, RInt(0)) THEN Returned(RInt(100))
  ELSE IF RLess(monthly_income, emi) THEN Returned(RInt(100))
  ELSE Returned(round_ndigits(RMul(RDiv(emi, monthly_income), RInt(100)), 100, err))

calculate_emi_to_income_ratio(emi, monthly_income, err) ==
  IF RLeq(monthly_income, RInt(0)) THEN Returned(RInt(100))
  ELSE Returned(round_ndigits(RMul(RDiv(emi, monthly_income), RInt(100)), 100, err))

\* the thresholds tested with >= for >
get_loan_recommendation_inclusive(emi_ratio) ==
  IF RLeq(RInt(50), emi_ratio)
  THEN "This EMI is very high relative to your income. Consider a smaller loan amount or longer tenure to reduce monthly payments."
  ELSE IF RLeq(RInt(40), emi_ratio)
  THEN "Consider extending tenure to reduce EMI. This loan may strain your monthly budget."
  ELSE IF RLeq(RInt(30), emi_ratio)
  THEN "This loan is affordable but leaves less room for savings. Consider a smaller amount if possible."
  ELSE "This loan fits well within your budget. You have healthy financial headroom."

get_loan_recommendation(emi_ratio) ==
  IF RLess(RInt(50), emi_ratio)
  THEN "This EMI is very high relative to your income. Consider a smaller loan amount or longer tenure to reduce monthly payments."
  ELSE IF RLess(RInt(40), emi_ratio)
  THEN "Consider extending tenure to reduce EMI. This loan may strain your monthly budget."
  ELSE IF RLess(RInt(30), emi_ratio)
  THEN "This loan is affordable but leaves less room for savings. Consider a smaller amount if possible."
  ELSE "This loan fits well within your budget. You have healthy financial headroom."

(***************************************************************************)
(* risk_rules.py: the Rule Engine.                                         *)
(*                                                                         *)
(* A derived float (emi_ratio, disposable_pct) is the record [q, err] of   *)
(* its exact value q and the sign err of its representation error, which   *)
(* decides a comparison with a threshold the exact value lies on.  A       *)
(* credit score is [none, v]: the caller may hand None for the integer v.  *)
(***************************************************************************)
PyInt(k) == [none |-> FALSE, v |-> k]
PyNone == [none |-> TRUE, v |-> 0]

Derived(q, err) == [q |-> q, err |-> err]
\* x > k and x < k on a derived float x and an integer k
FloatGt(x, k) == RLess(RInt(k), x.q) \/ (x.q = RInt(k) /\ x.err > 0)
FloatLt(x, k) == RLess(x.q, RInt(k)) \/ (x.q = RInt(k) /\ x.err < 0)

RISK_RULES ==
  << [id |-> "high_emi_burden", title |-> "High EMI Burden",
      rule |-> "EMI > 40% of income", severity |-> "high"],
     [id |-> "very_high_emi", title |-> "Critical EMI Level",
      rule |-> "EMI > 60% of income", severity |-> "high"],
     [id |-> "high_credit_utilization", title |-> "Credit Utilization Rising",
      rule |-> "Credit utilization > 60%", severity |-> "medium"],
     [id |-> "very_high_utilization", title |-> "Credit Utilization Critical",
      rule |-> "Credit utilization > 80%", severity |-> "high"],
     [id |-> "low_credit_score", title |-> "Low Credit Score",
      rule |-> "Credit score < 600", severity |-> "high"],
     [id |-> "multiple_active_loans", title |-> "Multiple Active Loans",
      rule |-> "Active loans > 3", severity |-> "medium"],
     [id |-> "low_disposable_income", title |-> "Low Disposable Income",
      rule |-> "Disposable income < 20% of income", severity |-> "medium"],
     [id |-> "score_improvement", title |-> "Score Improvement",
      rule |-> "Positive trend detected", severity |-> "low"],
     [id |-> "healthy_finances", title |-> "Healthy Financial Status",
      rule |-> "EMI < 30% and score > 750", severity |-> "low"],
     [id |-> "optimal_utilization", title |-> "Optimal Credit Utilization",
      rule |-> "Credit utilization between 10-30%", severity |-> "low"] >>

\* (disposable / income) * 100, or 0 without income: the same float
\* operations as the disposable_pct of the profile, hence the same error
_check_disposable(profile) ==
  IF RLeq(profile.monthly_income, RInt(0)) THEN Derived(RInt(0), 0)
  ELSE Derived(RMul(RDiv(RSub(RSub(profile.monthly_income, profile.monthly_expenses),
                              profile.existing_emis),
                         profile.monthly_income), RInt(100)),
               profile.disposable_pct.err)

\* rule["check"](profile) raises: an order comparison of None with an int
check_raises(id, profile) ==
  CASE id = "low_credit_score" -> profile.credit_score.none
    [] id = "healthy_finances" ->
         FloatLt(profile.emi_ratio, 30) /\ profile.credit_score.none
    [] OTHER -> FALSE

\* the optimal range of the utilization read without its ends
check_open_range(id, profile) ==
  CASE id = "high_emi_burden" -> FloatGt(profile.emi_ratio, 40)
    [] id = "very_high_emi" -> FloatGt(profile.emi_ratio, 60)
    [] id = "high_credit_utilization" -> profile.credit_utilization > 60
    [] id = "very_high_utilization" -> profile.credit_utilization > 80
    [] id = "low_credit_score" -> profile.credit_score.v < 600
    [] id = "multiple_active_loans" -> profile.active_loans > 3
    [] id = "low_disposable_income" -> FloatLt(_check_disposable(profile), 20)
    [] id = "score_improvement" -> profile.score_trend > 30
    [] id = "healthy_finances" ->
         FloatLt(profile.emi_ratio, 30) /\ profile.credit_score.v > 750
    [] id = "optimal_utilization" ->
         10 < profile.credit_utilization /\ profile.credit_utilization < 30

\* healthy_finances asking for either of its two conditions
check_healthy_either(id, profile) ==
  CASE id = "high_emi_burden" -> FloatGt(profile.emi_ratio, 40)
    [] id = "very_high_emi" -> FloatGt(profile.emi_ratio, 60)
    [] id = "high_credit_utilization" -> profile.credit_utilization > 60
    [] id = "very_high_utilization" -> profile.credit_utilization > 80
    [] id = "low_credit_score" -> profile.credit_score.v < 600
    [] id = "multiple_active_loans" -> profile.active_loans > 3
    [] id = "low_disposable_income" -> FloatLt(_check_disposable(profile), 20)
    [] id = "score_improvement" -> profile.score_trend > 30
    [] id = "healthy_finances" ->
         FloatLt(profile.emi_ratio, 30) \/ profile.credit_score.v > 750
    [] id = "optimal_utilization" ->
         10 <= profile.credit_utilization /\ profile.credit_utilization <= 30

\* rule["check"](profile), where it does not raise
check(id, profile) ==
  CASE id = "high_emi_burden" -> FloatGt(profile.emi_ratio, 40)
    [] id = "very_high_emi" -> FloatGt(profile.emi_ratio, 60)
    [] id = "high_credit_utilization" -> profile.credit_utilization > 60
    [] id = "very_high_utilization" -> profile.credit_utilization > 80
    [] id = "low_credit_score" -> profile.credit_score.v < 600
    [] id = "multiple_active_loans" -> profile.active_loans > 3
    [] id = "low_disposable_income" -> FloatLt(_check_disposable(profile), 20)
    [] id = "score_improvement" -> profile.score_trend > 30
    [] id = "healthy_finances" ->
         FloatLt(profile.emi_ratio, 30) /\ profile.credit_score.v > 750
    [] id = "optimal_utilization" ->
         10 <= profile.credit_utilization /\ profile.credit_utilization <= 30

\* rule["description_template"].format(...): the template of the rule and the
\* one value it renders ({x:.0f} renders a float rounded to an integer)
description(id, profile) ==
  [template |-> id,
   arg |-> CASE id \in {"high_emi_burden", "very_high_emi"} ->
                  round_float(profile.emi_ratio.q, profile.emi_ratio.err)
             [] id \in {"high_credit_utilization", "very_high_utilization",
                        "optimal_utilization"} -> profile.credit_utilization
             [] id = "low_credit_score" -> profile.credit_score.v
             [] id = "multiple_active_loans" -> profile.active_loans
             [] id = "low_disposable_income" ->
                  round_float(profile.disposable_pct.q, profile.disposable_pct.err)
             [] id = "score_improvement" -> profile.score_trend
             [] OTHER -> 0]

\* severity_order.get(severity, 3)
severity_order(severity) ==
  CASE severity = "high" -> 0
    [] severity = "medium" -> 1
    [] severity = "low" -> 2
    [] OTHER -> 3

\* alerts.sort(key=...): x placed before the alerts of its own rank
insert_by_severity_unstable(sorted, x) ==
  SelectSeq(sorted, LAMBDA a : severity_order(a.severity) < severity_order(x.severity))
    \o <<x>>
    \o SelectSeq(sorted, LAMBDA a : severity_order(a.severity) >= severity_order(x.severity))

\* alerts.sort(key=...), one element at a time: x goes behind every alert of
\* its own or a smaller rank (list.sort is stable)
insert_by_severity(sorted, x) ==
  SelectSeq(sorted, LAMBDA a : severity_order(a.severity) <= severity_order(x.severity))
    \o <<x>>
    \o SelectSeq(sorted, LAMBDA a : severity_order(a.severity) > severity_order(x.severity))

RECURSIVE sort_by_severity(_)
sort_by_severity(alerts) ==
  IF alerts = <<>> THEN alerts
  ELSE insert_by_severity(sort_by_severity(SubSeq(alerts, 1, Len(alerts) - 1)),
                          alerts[Len(alerts)])

RECURSIVE triggered_from(_, _, _)
RECURSIVE triggered_from_dated_ids(_, _, _)
RECURSIVE triggered_from_stops_at_raise(_, _, _)
\* a rule whose check raises ends the loop: "break" for "continue"
triggered_from_stops_at_raise(i, profile, now) ==
  IF i > Len(RISK_RULES) THEN <<>>
  ELSE IF check_raises(RISK_RULES[i].id, profile) THEN <<>>
  ELSE IF check(RISK_RULES[i].id, profile)
       THEN <<[id |-> RISK_RULES[i].id, title |-> RISK_RULES[i].title,
               description |-> description(RISK_RULES[i].id, profile),
               severity |-> RISK_RULES[i].severity, rule |-> RISK_RULES[i].rule,
               created_at |-> now, is_active |-> TRUE]>>
            \o triggered_from_stops_at_raise(i + 1, profile, now)
       ELSE triggered_from_stops_at_raise(i + 1, profile, now)

\* the id of an alert made unique by the reading of the clock
triggered_from_dated_ids(i, profile, now) ==
  IF i > Len(RISK_RULES) THEN <<>>
  ELSE IF check_raises(RISK_RULES[i].id, profile)
  THEN triggered_from_dated_ids(i + 1, profile, now)
  ELSE IF check(RISK_RULES[i].id, profile)
       THEN <<[id |-> <<RISK_RULES[i].id, now>>, title |-> RISK_RULES[i].title,
               description |-> description(RISK_RULES[i].id, profile),
               severity |-> RISK_RULES[i].severity, rule |-> RISK_RULES[i].rule,
               created_at |-> now, is_active |-> TRUE]>>
            \o triggered_from_dated_ids(i + 1, profile, now)
       ELSE triggered_from_dated_ids(i + 1, profile, now)

\* the loop over RISK_RULES from rule i on: a rule whose check raises is
\* skipped, a rule whose check holds appends its alert
triggered_from(i, profile, now) ==
  IF i > Len(RISK_RULES) THEN <<>>
  ELSE IF check_raises(RISK_RULES[i].id, profile) THEN triggered_from(i + 1, profile, now)
  ELSE IF check(RISK_RULES[i].id, profile)
       THEN <<[id |-> RISK_RULES[i].id, title |-> RISK_RULES[i].title,
               description |-> description(RISK_RULES[i].id, profile),
               severity |-> RISK_RULES[i].severity, rule |-> RISK_RULES[i].rule,
               created_at |-> now, is_active |-> TRUE]>>
            \o triggered_from(i + 1, profile, now)
       ELSE triggered_from(i + 1, profile, now)

\* now is the reading of the clock; err1 and err2 are the representation
\* errors of emi_ratio and of disposable_pct
generate_risk_alerts(credit_score, monthly_income, monthly_expenses, existing_emis, credit_utilization, active_loans, score_trend, now, err1, err2) ==
  LET emi_ratio == IF RLess(RInt(0), monthly_income)
                   THEN Derived(RMul(RDiv(existing_emis, monthly_income), RInt(100)), err1)
                   ELSE Derived(RInt(100), 0)
      disposable == RSub(RSub(monthly_income, monthly_expenses), existing_emis)
      disposable_pct == IF RLess(RInt(0), monthly_income)
                        THEN Derived(RMul(RDiv(disposable, monthly_income), RInt(100)), err2)
                        ELSE Derived(RInt(0), 0)
      profile == [credit_score |-> credit_score, monthly_income |-> monthly_income,
                  monthly_expenses |-> monthly_expenses, existing_emis |-> existing_emis,
                  credit_utilization |-> credit_utilization, active_loans |-> active_loans,
                  emi_ratio |-> emi_ratio, disposable_pct |-> disposable_pct,
                  score_trend |-> score_trend]
  IN  sort_by_severity(triggered_from(1, profile, now))

\* alert.get("severity", "low") without the default: a missing key counts
\* for nothing
severity_of_strict(alert) ==
  IF "severity" \in DOMAIN alert THEN alert.severity ELSE "none"

\* alert.get("severity", "low")
severity_of(alert) ==
  IF "severity" \in DOMAIN alert THEN alert.severity ELSE "low"

\* the loop of get_alert_counts over the first n alerts
RECURSIVE counted(_, _)
counted(alerts, n) ==
  IF n = 0 THEN [s \in {"high", "medium", "low"} |-> 0]
  ELSE IF severity_of(alerts[n]) \in DOMAIN counted(alerts, n - 1)
       THEN [counted(alerts, n - 1) EXCEPT ![severity_of(alerts[n])] = @ + 1]
       ELSE counted(alerts, n - 1)

get_alert_counts(alerts) == counted(alerts, Len(alerts))

(***************************************************************************)
(* risk_rules.py: the What-If Simulator.  The explanation and alternative  *)
(* of an action are fixed texts, each stood for by the id of its entry.    *)
(***************************************************************************)
SIMULATION_ACTIONS ==
  << [id |-> "miss_emi", title |-> "Miss 1 EMI", impact |-> 0 - 35, direction |-> "down",
      explanation |-> "miss_emi", alternative |-> "miss_emi"],
     [id |-> "increase_util", title |-> "Increase Utilization", impact |-> 0 - 25,
      direction |-> "down", explanation |-> "increase_util", alternative |-> "increase_util"],
     [id |-> "extend_tenure", title |-> "Extend Tenure", impact |-> 5, direction |-> "up",
      explanation |-> "extend_tenure", alternative |-> "extend_tenure"],
     [id |-> "close_loan", title |-> "Close a Loan", impact |-> 15, direction |-> "up",
      explanation |-> "close_loan", alternative |-> "close_loan"],
     [id |-> "reduce_utilization", title |-> "Reduce Utilization to 30%", impact |-> 20,
      direction |-> "up", explanation |-> "reduce_utilization",
      alternative |-> "reduce_utilization"],
     [id |-> "new_credit_inquiry", title |-> "Apply for New Credit", impact |-> 0 - 10,
      direction |-> "down", explanation |-> "new_credit_inquiry",
      alternative |-> "new_credit_inquiry"] >>

\* a value that may be None: [none |-> TRUE] or [none |-> FALSE, ...]
NotFound == [none |-> TRUE]

\* the lookup falling back on the first action of the catalog
get_simulation_action_default(action_id) ==
  IF \E i \in 1..Len(SIMULATION_ACTIONS) : SIMULATION_ACTIONS[i].id = action_id
  THEN [none |-> FALSE,
        action |-> SIMULATION_ACTIONS[CHOOSE i \in 1..Len(SIMULATION_ACTIONS) :
                     /\ SIMULATION_ACTIONS[i].id = action_id
                     /\ \A j \in 1..(i - 1) : SIMULATION_ACTIONS[j].id # action_id]]
  ELSE [none |-> FALSE, action |-> SIMULATION_ACTIONS[1]]

\* the first action of the catalog with the id, or None
get_simulation_action(action_id) ==
  IF \E i \in 1..Len(SIMULATION_ACTIONS) : SIMULATION_ACTIONS[i].id = action_id
  THEN [none |-> FALSE,
        action |-> SIMULATION_ACTIONS[CHOOSE i \in 1..Len(SIMULATION_ACTIONS) :
                     /\ SIMULATION_ACTIONS[i].id = action_id
                     /\ \A j \in 1..(i - 1) : SIMULATION_ACTIONS[j].id # action_id]]
  ELSE NotFound

Min(a, b) == IF a < b THEN a ELSE b
Max(a, b) == IF a > b THEN a ELSE b

\* the projection clamped from below only
clamp_score_floor_only(projected_score) == Max(300, projected_score)

\* max(300, min(900, projected_score))
clamp_score(projected_score) == Max(300, Min(900, projected_score))

\* the direction told from the two scores, not copied from the catalog
simulate_action_direction_by_scores(action_id, current_score) ==
  LET found == get_simulation_action(action_id)
  IN  IF found.none THEN NotFound
      ELSE [none |-> FALSE,
            current_score |-> current_score,
            projected_score |-> clamp_score(current_score + found.action.impact),
            impact |-> found.action.impact,
            direction |-> IF clamp_score(current_score + found.action.impact) > current_score
                          THEN "up" ELSE "down",
            explanation |-> found.action.explanation,
            alternative |-> found.action.alternative]

simulate_action(action_id, current_score) ==
  LET found == get_simulation_action(action_id)
  IN  IF found.none THEN NotFound
      ELSE [none |-> FALSE,
            current_score |-> current_score,
            projected_score |-> clamp_score(current_score + found.action.impact),
            impact |-> found.action.impact,
            direction |-> found.action.direction,
            explanation |-> found.action.explanation,
            alternative |-> found.action.alternative]

(***************************************************************************)
(* risk_rules.py run by several callers at once.  Each call keeps its      *)
(* locals (profile, alerts, now, counts, action) in its own frame; the     *)
(* module-level lists RISK_RULES and SIMULATION_ACTIONS are the only       *)
(* objects the calls have in common, and they are read through the state   *)
(* variable catalogs.  A frame is the record threads[t].                   *)
(***************************************************************************)
StaticCatalogs == [RISK_RULES |-> RISK_RULES, SIMULATION_ACTIONS |-> SIMULATION_ACTIONS]

\* the callers that run the core at the same time
Threads == {1, 2}

NoFrame == [fn |-> "none", pc |-> "idle"]

\* the profile dict built at the head of generate_risk_alerts
risk_profile(args) ==
  LET emi_ratio == IF RLess(RInt(0), args.monthly_income)
                   THEN Derived(RMul(RDiv(args.existing_emis, args.monthly_income), RInt(100)), args.float_err[1])
                   ELSE Derived(RInt(100), 0)
      disposable == RSub(RSub(args.monthly_income, args.monthly_expenses), args.existing_emis)
      disposable_pct == IF RLess(RInt(0), args.monthly_income)
                        THEN Derived(RMul(RDiv(disposable, args.monthly_income), RInt(100)), args.float_err[2])
                        ELSE Derived(RInt(0), 0)
  IN  [credit_score |-> args.credit_score, monthly_income |-> args.monthly_income,
       monthly_expenses |-> args.monthly_expenses, existing_emis |-> args.existing_emis,
       credit_utilization |-> args.credit_utilization, active_loans |-> args.active_loans,
       emi_ratio |-> emi_ratio, disposable_pct |-> disposable_pct,
       score_trend |-> args.score_trend]

\* a list kept at module level: a call goes on with the list of a call
\* that is already under way
new_alerts_module_level(frames, t) ==
  IF \E u \in DOMAIN frames : u # t /\ frames[u].fn = "generate_risk_alerts"
  THEN frames[CHOOSE u \in DOMAIN frames : u # t /\ frames[u].fn = "generate_risk_alerts"].alerts
  ELSE <<>>

\* alerts = []: a new list in the frame of the call
new_alerts(frames, t) == <<>>

\* one pass of "for rule in RISK_RULES": the list of the call after the rule
rule_step(alerts, rule, profile, now) ==
  IF check_raises(rule.id, profile) THEN alerts
  ELSE IF check(rule.id, profile)
       THEN Append(alerts, [id |-> rule.id, title |-> rule.title,
                            description |-> description(rule.id, profile),
                            severity |-> rule.severity, rule |-> rule.rule,
                            created_at |-> now, is_active |-> TRUE])
       ELSE alerts

\* counts = {"high": 0, "medium": 0, "low": 0}
new_counts == [s \in {"high", "medium", "low"} |-> 0]

\* one pass of "for alert in alerts" of get_alert_counts
count_step(counts, alert) ==
  IF severity_of(alert) \in DOMAIN counts
  THEN [counts EXCEPT ![severity_of(alert)] = @ + 1]
  ELSE counts

\* the loop of get_simulation_action over the list it is given: the first
\* entry with the id, the entry itself and not a copy of it
find_action(actions, action_id) ==
  IF \E i \in 1..Len(actions) : actions[i].id = action_id
  THEN [none |-> FALSE,
        action |-> actions[CHOOSE i \in 1..Len(actions) :
                     /\ actions[i].id = action_id
                     /\ \A j \in 1..(i - 1) : actions[j].id # action_id]]
  ELSE NotFound

\* the dictionary simulate_action returns for the entry it has found
simulation_result(found, current_score) ==
  IF found.none THEN NotFound
  ELSE [none |-> FALSE,
        current_score |-> current_score,
        projected_score |-> clamp_score(current_score + found.action.impact),
        impact |-> found.action.impact,
        direction |-> found.action.direction,
        explanation |-> found.action.explanation,
        alternative |-> found.action.alternative]

(***************************************************************************)
(* The store behind the routes (Supabase): the collections users and       *)
(* profiles, reached through one store operation at a time.  A handler is  *)
(* an "async def" that never awaits, so one server process runs a request  *)
(* from its first line to its last; the processes serving the application  *)
(* (Workers) share the store, and their store operations interleave.       *)
(***************************************************************************)
Workers == {1, 2}

NoRequest == [op |-> "none", pc |-> "idle"]

\* db.table("users").select("id, email").eq("email", email).execute().data
select_users_by_email(rows, email) == {r \in rows : r.email = email}

\* the table after db.table("users").insert(user_record).execute(), the
\* store giving the row the id it has chosen
insert_user(rows, id, email) == rows \cup {[id |-> id, email |-> email]}

\* the table after db.table("profiles").insert(profile_record).execute()
insert_profile(rows, user_id) == rows \cup {[user_id |-> user_id, monthly_income |-> 0]}

\* the table after db.table("users").delete().eq("id", user_id).execute()
delete_user(rows, user_id) == {r \in rows : r.id # user_id}

\* what the cascade leaves of a table that refers to users
cascade(rows, kept) == {r \in rows : \E u \in kept : u.id = r.user_id}

(***************************************************************************)
(* schemas.py: the request and response models of the CHI endpoints.       *)
(***************************************************************************)
\* CHICalculateRequest: the field constraints FastAPI enforces on the body
CHICalculateRequest(params) ==
  /\ params.credit_score >= 300 /\ params.credit_score <= 900
  /\ RLeq(RInt(0), params.emi_to_income_ratio)
  /\ RLeq(params.emi_to_income_ratio, RInt(100))
  /\ params.active_loans >= 0
  /\ params.missed_payments >= 0

\* CHIResponse(...): construction validates chi_score into 0..100 and the
\* risk level into the three literals; a violation raises ValidationError,
\* which the framework answers with status 500.
CHIResponse(chi_score, risk_level, breakdown) ==
  IF chi_score >= 0 /\ chi_score <= 100 /\ risk_level \in {"low", "medium", "high"}
  THEN [status |-> 200, chi_score |-> chi_score, risk_level |-> risk_level,
        breakdown |-> breakdown]
  ELSE [status |-> 500, chi_score |-> chi_score, risk_level |-> risk_level,
        breakdown |-> breakdown]

(***************************************************************************)
(* loans/routes.py: the Loan Decision Playground.                          *)
(***************************************************************************)
DEFAULT_USER ==
  [monthly_income |-> 85000, monthly_expenses |-> 35000, existing_emis |-> 12000,
   credit_score |-> 742, active_loans |-> 2]

\* Python "x or default" on an Optional number: None and 0 both give the default
or_default(x, default) == IF x.none \/ x.v = 0 THEN default ELSE x.v

\* The profile values calculate_loan works with.  Each starts as "request
\* value or default"; a stored profile row replaces it where the request
\* value is None, and so does the stored score.  fail is the store operation
\* that raises: the handler swallows the exception and keeps what it has
\* assigned so far.
resolve_profile(request, profile_data, score_data, fail) ==
  LET profile_ok == fail \in {"none", "score_query"} /\ Len(profile_data) > 0
      have_score == fail = "none" /\ Len(score_data) > 0
  IN  [monthly_income |->
         IF profile_ok /\ request.monthly_income.none
         THEN profile_data[1].monthly_income
         ELSE or_default(request.monthly_income, DEFAULT_USER.monthly_income),
       monthly_expenses |->
         IF profile_ok /\ request.monthly_expenses.none
         THEN profile_data[1].monthly_expenses
         ELSE or_default(request.monthly_expenses, DEFAULT_USER.monthly_expenses),
       existing_emis |->
         IF profile_ok /\ request.existing_emis.none
         THEN profile_data[1].existing_emis
         ELSE or_default(request.existing_emis, DEFAULT_USER.existing_emis),
       active_loans |->
         IF profile_ok /\ request.active_loans.none
         THEN profile_data[1].active_loans
         ELSE or_default(request.active_loans, DEFAULT_USER.active_loans),
       credit_score |->
         IF have_score /\ request.credit_score.none
         THEN score_data[1].score
         ELSE or_default(request.credit_score, DEFAULT_USER.credit_score)]

\* LoanCalculateRequest: the field constraints FastAPI enforces on the body
LoanCalculateRequest(request) ==
  /\ request.loan_amount >= 10000
  /\ request.interest_rate.num >= 0
  /\ BigCmp(BigFromInt(request.interest_rate.num), scaled_den(request.interest_rate)) >= 0
  /\ BigCmp(BigFromInt(request.interest_rate.num),
            BigStrip(BigMulLimb(scaled_den(request.interest_rate), 30, 0))) <= 0
  /\ request.tenure_months >= 6 /\ request.tenure_months <= 360

\* POST /api/loans/playground/calculate.  err1 is the representation error
\* of the amounts and ratios the handler rounds, err2 that of the two CHI sums.
calculate_loan(request, profile_data, score_data, fail, err1, err2) ==
  LET p == resolve_profile(request, profile_data, score_data, fail)
      emi == calculate_emi(request.loan_amount, request.interest_rate,
                           request.tenure_months, err1)
      total_interest == calculate_total_interest(request.loan_amount, emi.value,
                                                 request.tenure_months, err1)
      total_payment == RAdd(RInt(request.loan_amount), total_interest)
      new_total_emi == RAdd(RInt(p.existing_emis), emi.value)
      current_emi_ratio == calculate_emi_to_income_ratio(RInt(p.existing_emis),
                                                         RInt(p.monthly_income), err1).value
      new_emi_ratio == calculate_emi_to_income_ratio(new_total_emi,
                                                     RInt(p.monthly_income), err1).value
      current_chi == calculate_chi(p.credit_score, current_emi_ratio, p.active_loans, 0, err2)
      new_chi == calculate_chi(p.credit_score, new_emi_ratio, p.active_loans + 1, 0, err2)
  IN  IF emi.raised # "none" THEN [status |-> 500]
      ELSE [status |-> 200,
            emi |-> emi.value,
            total_interest |-> total_interest,
            total_payment |-> total_payment,
            new_total_emi |-> new_total_emi,
            new_emi_ratio |-> round_ndigits(new_emi_ratio, 100, err1),
            current_chi |-> current_chi,
            new_chi |-> new_chi,
            chi_change |-> new_chi - current_chi,
            risk_level |-> get_risk_level(new_chi),
            recommendation |-> get_loan_recommendation(new_emi_ratio)]

(***************************************************************************)
(* loans/routes.py: the simulator endpoint.                                *)
(***************************************************************************)
\* POST /api/loans/simulator/simulate.  request.current_score is an
\* Optional[int]; score_data is the row list of the store and fail tells
\* whether the store raises (the handler swallows it).
run_simulation(request, score_data, fail) ==
  LET requested == IF request.current_score.none \/ request.current_score.v = 0
                   THEN 742 ELSE request.current_score.v
      current_score == IF request.current_score.none /\ ~fail /\ Len(score_data) > 0
                       THEN score_data[1].score ELSE requested
      result == simulate_action(request.action_id, current_score)
  IN  IF result.none THEN [status |-> 404, detail |-> request.action_id]
      ELSE [status |-> 200, body |-> result]

(***************************************************************************)
(* chi/routes.py                                                           *)
(***************************************************************************)
\* POST /api/chi/calculate
calculate_chi_score(params, err1, err2) ==
  LET chi_score == calculate_chi(params.credit_score, params.emi_to_income_ratio,
                                 params.active_loans, params.missed_payments, err1)
      risk_level == get_risk_level(chi_score)
      breakdown == get_chi_breakdown(params.credit_score, params.emi_to_income_ratio,
                                     params.active_loans, params.missed_payments, err2)
  IN  CHIResponse(chi_score, risk_level, breakdown)

\* GET /api/chi/current.  profile_data and score_data are the row lists the
\* store answers with; fail is the store operation that raises (the handler
\* swallows the exception and keeps what it has assigned so far).
get_current_chi(profile_data, score_data, fail, err1, err2) ==
  LET have_score == fail = "none" /\ Len(score_data) > 0
      profile_ok == fail \in {"none", "score_query"} /\ Len(profile_data) > 0
      credit_score == IF have_score THEN score_data[1].score ELSE 742
      monthly_income == IF profile_ok THEN profile_data[1].monthly_income ELSE 85000
      existing_emis == IF profile_ok THEN profile_data[1].existing_emis ELSE 12000
      active_loans == IF profile_ok THEN profile_data[1].active_loans ELSE 2
      missed_payments == 0
      emi_ratio == IF monthly_income > 0
                   THEN RMul(RDiv(RInt(existing_emis), RInt(monthly_income)), RInt(100))
                   ELSE RInt(0)
      chi_score == calculate_chi(credit_score, emi_ratio, active_loans, missed_payments, err1)
      risk_level == get_risk_level(chi_score)
      breakdown == get_chi_breakdown(credit_score, emi_ratio, active_loans, missed_payments, err2)
  IN  CHIResponse(chi_score, risk_level, breakdown)

(***************************************************************************)
(* auth/jwt.py: bearer tokens.                                             *)
(*                                                                         *)
(* A string handed in as a token is the record [text, claims, key, alg].   *)
(* text is "jws" for a compact signed token, whose claims, signing key and *)
(* algorithm the other fields hold; every other text ("", "malformed",     *)
(* "Bearer ") is that string itself, no token.  A claim "sub" is the       *)
(* record [present, is_str, text]: absent, a string, or another JSON value *)
(* (text is then what str() makes of it).  Times are seconds since the     *)
(* epoch.                                                                  *)
(***************************************************************************)
\* config.py: the settings the tokens are made and validated with
jwt_secret_key == "dev_secret_key_not_for_production"
jwt_algorithm == "HS256"
jwt_access_token_expire_minutes == 30

NoSub == [present |-> FALSE, is_str |-> FALSE, text |-> ""]
StrSub(s) == [present |-> TRUE, is_str |-> TRUE, text |-> s]
JsonSub(s) == [present |-> TRUE, is_str |-> FALSE, text |-> s]

NoClaims == [sub |-> NoSub, exp |-> 0, iat |-> 0, type |-> ""]
NotAToken(text) == [text |-> text, claims |-> NoClaims, key |-> "", alg |-> ""]

\* an Optional[str]
NoneStr == [none |-> TRUE, str |-> ""]
SomeStr(s) == [none |-> FALSE, str |-> s]

\* jose.jwt.encode: the claims signed with the key
jwt_encode(claims, key, algorithm) ==
  [text |-> "jws", claims |-> claims, key |-> key, alg |-> algorithm]

\* jose.jwt.decode at the time now: the token must be a compact signed token,
\* signed with the key by one of the algorithms, its exp not before now and
\* its sub, if any, a string
jwt_decode(token, key, algorithms, now) ==
  IF token.text # "jws" THEN [raised |-> "JWTError", payload |-> NoClaims]
  ELSE IF token.alg \notin algorithms \/ token.key # key
  THEN [raised |-> "JWTError", payload |-> NoClaims]
  ELSE IF token.claims.exp < now
  THEN [raised |-> "ExpiredSignatureError", payload |-> NoClaims]
  ELSE IF token.claims.sub.present /\ ~token.claims.sub.is_str
  THEN [raised |-> "JWTClaimsError", payload |-> NoClaims]
  ELSE [raised |-> "none", payload |-> token.claims]

\* datetime.timestamp() of the naive datetime whose fields are the UTC time
\* now: Python reads a naive datetime as local time, so on a host whose
\* zone is utc_offset seconds east of UTC the result is now - utc_offset
naive_timestamp(now, utc_offset) == now - utc_offset

\* create_access_token at the UTC time now.  expires_delta is an Optional
\* number of seconds; a zero timedelta is falsy and gets the default too.
create_access_token(data, expires_delta, now, utc_offset) ==
  LET expire == IF ~expires_delta.none /\ expires_delta.v # 0
                THEN now + expires_delta.v
                ELSE now + 60 * jwt_access_token_expire_minutes
      to_encode == [sub |-> data.sub,
                    exp |-> naive_timestamp(expire, utc_offset),
                    iat |-> naive_timestamp(now, utc_offset),
                    type |-> "access"]
  IN  jwt_encode(to_encode, jwt_secret_key, jwt_algorithm)

\* every failure of the library becomes the 401 of the handler
decode_token(token, now) ==
  LET decoded == jwt_decode(token, jwt_secret_key, {jwt_algorithm}, now)
  IN  IF decoded.raised = "none" THEN decoded
      ELSE [raised |-> "HTTPException", payload |-> NoClaims]

\* the three handlers of get_token_data catch whatever decode_token raises
get_token_data(token, now) ==
  IF token.text = "" THEN NoneStr
  ELSE LET decoded == decode_token(token, now)
       IN  IF decoded.raised # "none" THEN NoneStr
           ELSE IF ~decoded.payload.sub.present THEN NoneStr
           ELSE SomeStr(decoded.payload.sub.text)

(***************************************************************************)
(* auth/jwt.py: passwords.                                                 *)
(*                                                                         *)
(* A password is a sequence of characters [w, id], w the number of bytes   *)
(* of the character in UTF-8.  A byte is [id, k, w]: byte k of the w bytes *)
(* of the character id; byte 1 is an ASCII byte (w = 1) or a start byte,   *)
(* the others are continuation bytes (10xxxxxx).  A bcrypt hash string is  *)
(* [text, salt, digest]: for text "bcrypt" the salt and what stands for    *)
(* the digest, the bytes that were hashed; every other text is that string *)
(* itself, no hash.                                                        *)
(***************************************************************************)
\* the longest input bcrypt takes, in bytes
BcryptLimit == 72

\* str.encode('utf-8')
RECURSIVE encode_utf8(_)
encode_utf8(password) ==
  IF password = <<>> THEN <<>>
  ELSE encode_utf8(SubSeq(password, 1, Len(password) - 1))
       \o [k \in 1..password[Len(password)].w |->
             [id |-> password[Len(password)].id, k |-> k, w |-> password[Len(password)].w]]

\* (byte & 0xC0) == 0x80
is_continuation(byte) == byte.k > 1

\* the while loop of hash_password and verify_password: trailing
\* continuation bytes are removed
RECURSIVE strip_continuation(_)
strip_continuation(password_bytes) ==
  IF Len(password_bytes) > 0 /\ is_continuation(password_bytes[Len(password_bytes)])
  THEN strip_continuation(SubSeq(password_bytes, 1, Len(password_bytes) - 1))
  ELSE password_bytes

\* the bytes hash_password hands to bcrypt
hash_password_bytes(password) ==
  IF Len(encode_utf8(password)) > BcryptLimit
  THEN strip_continuation(SubSeq(encode_utf8(password), 1, BcryptLimit))
  ELSE encode_utf8(password)

\* the bytes verify_password hands to bcrypt
verify_password_bytes(plain_password) ==
  IF Len(encode_utf8(plain_password)) > BcryptLimit
  THEN strip_continuation(SubSeq(encode_utf8(plain_password), 1, BcryptLimit))
  ELSE encode_utf8(plain_password)

NotAHash(text) == [text |-> text, salt |-> "", digest |-> <<>>]

\* bcrypt.hashpw and bcrypt.checkpw
bcrypt_hashpw(password_bytes, salt) ==
  [text |-> "bcrypt", salt |-> salt, digest |-> password_bytes]
bcrypt_checkpw(password_bytes, hash) ==
  IF hash.text # "bcrypt" THEN [raised |-> "ValueError", ok |-> FALSE]
  ELSE [raised |-> "none", ok |-> bcrypt_hashpw(password_bytes, hash.salt) = hash]

\* salt is what bcrypt.gensalt() draws
hash_password(password, salt) ==
  IF password = <<>> THEN [raised |-> "ValueError", hashed |-> NotAHash("")]
  ELSE [raised |-> "none", hashed |-> bcrypt_hashpw(hash_password_bytes(password), salt)]

\* whatever bcrypt raises is answered with False
verify_password(plain_password, hashed_password) ==
  IF plain_password = <<>> \/ hashed_password.text = "" THEN FALSE
  ELSE bcrypt_checkpw(verify_password_bytes(plain_password), hashed_password).ok

(***************************************************************************)
(* auth/routes.py and chi/routes.py: the identity the routes work for.     *)
(* An Authorization header is [none, parts]: None, or the string that is   *)
(* the concatenation of its parts, each the prefix "Bearer " or a string   *)
(* handed in as a token.                                                   *)
(***************************************************************************)
get_user_from_token(token, now) == get_token_data(token, now)

BearerPrefix == NotAToken("Bearer ")

\* the string made of the parts: two or more of them are no token
joined(parts) ==
  IF Len(parts) = 0 THEN NotAToken("")
  ELSE IF Len(parts) = 1 THEN parts[1]
  ELSE NotAToken("malformed")

\* authorization.replace("Bearer ", ""): every occurrence goes
without_bearer(parts) ==
  LET kept(p) == p # BearerPrefix
  IN  joined(SelectSeq(parts, kept))

\* the identity is used as it comes from the token, without a fallback
get_current_user_id_no_fallback(authorization, now) ==
  IF authorization.none \/ Len(authorization.parts) = 0 THEN "1"
  ELSE LET token == IF authorization.parts[1] = BearerPrefix
                    THEN without_bearer(authorization.parts)
                    ELSE joined(authorization.parts)
           user_id == get_user_from_token(token, now)
       IN  user_id.str

get_current_user_id(authorization, now) ==
  IF authorization.none \/ Len(authorization.parts) = 0 THEN "1"
  ELSE LET token == IF authorization.parts[1] = BearerPrefix
                    THEN without_bearer(authorization.parts)
                    ELSE joined(authorization.parts)
           user_id == get_user_from_token(token, now)
       IN  IF user_id.none \/ user_id.str = "" THEN "1" ELSE user_id.str

(***************************************************************************)
(* Inputs.                                                                 *)
(***************************************************************************)
\* credit scores inside the documented domain 300..900
ValidScores == {300, 301, 306, 450, 599, 600, 742, 751, 899, 900}
\* credit scores a store may hold although no request schema admits them
StrayScores == {-100, 0, 299, 901, 1000}
\* EMI-to-income ratios in hundredths of a percent, inside 0..100 %
ValidRatios == {0, 50, 300, 1412, 3000, 10000}
StrayRatios == {-500, 10001, 15000}
\* loan terms: principal, annual rate in hundredths of a percent, tenure
Principals == {-1000, 0, 1, 100, 1000, 10000, 100000}
AnnualRates == {-100, 0, 50, 100, 1000, 1050, 3000, 120000}
Tenures == (0 - 1)..MaxTenure
\* the loan terms the documentation pins: (100000, 10 %, 12 months) and the
\* interest-free (100000, 0 %, 10 months)
PinnedTerms == {<<100000, 1000, 0, 12>>, <<100000, 0, 0, 10>>}
\* a positive annual rate of 2^-60 percent: a float like any other, which no
\* validation stands before (loans/routes.py compare_loan_options)
TinyTerms == {<<100000, 100, 60, 12>>, <<1000, 100, 60, 1>>}
\* principal, annual rate in hundredths of a percent, its scaling e2, tenure
LoanTerms == (Principals \X AnnualRates \X {0} \X Tenures) \cup PinnedTerms \cup TinyTerms
\* total monthly EMI payments in hundredths, and monthly incomes
EmiAmounts == {-50000, 0, 100, 33333, 879159, 1200000, 5000000}
MonthlyIncomes == {-1000, 0, 1, 3, 7, 40000, 85000}
\* snapshots handed to the Rule Engine
SnapshotScores == {PyNone, PyInt(599), PyInt(600), PyInt(751)}
SnapshotIncomes == {0, 100000}
SnapshotExpenses == {0, 40000}
SnapshotEmis == {0, 30000, 40000, 41000, 60000, 61000}
SnapshotUtilizations == {9, 10, 30, 31, 60, 61, 80, 81}
SnapshotLoans == {3, 4}
SnapshotTrends == {30, 31}
\* the financial side varied against two utilizations, and the counters
\* varied against two financial positions
Snapshots ==
  (SnapshotScores \X SnapshotIncomes \X SnapshotExpenses \X SnapshotEmis
     \X {30, 81} \X {4} \X {31})
  \cup ({PyInt(600)} \X {100000} \X {0} \X {0, 41000}
          \X SnapshotUtilizations \X SnapshotLoans \X SnapshotTrends)
\* readings of the clock
ClockTicks == {1, 2}
\* snapshots of concurrent callers: one that trips rules of all three
\* severities, one that trips the low ones, one without a credit score
CoreSnapshots == {<<PyInt(599), 100000, 40000, 61000, 81, 4, 31>>,
                  <<PyInt(751), 100000, 0, 0, 30, 3, 30>>,
                  <<PyNone, 100000, 0, 41000, 61, 4, 31>>}
CoreFloatErr == {<<0, 0>>}
CoreAlertLists == {<<>>, <<[id |-> "a", severity |-> "high"]>>,
                   <<[id |-> "a", severity |-> "low"], [id |-> "a"]>>,
                   <<[id |-> "a", severity |-> "critical"], [id |-> "a", severity |-> "medium"]>>}
CoreActionIds == {"miss_emi", "reduce_utilization", "unknown_action"}
CoreScores == {290, 742, 890}
\* alert dictionaries a caller may hand to get_alert_counts: the three
\* severities, a severity outside the catalog, and no severity key at all
AlertDicts == {[id |-> "a", severity |-> "high"], [id |-> "a", severity |-> "medium"],
               [id |-> "a", severity |-> "low"], [id |-> "a", severity |-> "critical"],
               [id |-> "a"]}
RECURSIVE AlertLists(_)
AlertLists(n) ==
  IF n = 0 THEN {<<>>}
  ELSE AlertLists(n - 1)
         \cup {Append(l, a) : l \in {k \in AlertLists(n - 1) : Len(k) = n - 1}, a \in AlertDicts}
\* action ids of the catalog and ids outside it
KnownActionIds == {SIMULATION_ACTIONS[i].id : i \in 1..Len(SIMULATION_ACTIONS)}
UnknownActionIds == {"", "unknown_action", "MISS_EMI"}
\* current scores around the bounds 300 and 900 and the impacts of the catalog
SimScores == {-100, 0, 264, 265, 290, 299, 300, 310, 334, 335, 336, 700, 742,
              879, 880, 881, 895, 900, 901, 935, 1000}
RequestScores == {PyNone, PyInt(0), PyInt(300), PyInt(700), PyInt(890)}
\* EMI ratios handed to get_loan_recommendation, in hundredths of a percent
RecommendationRatios == {-100, 0, 2999, 3000, 3001, 3999, 4000, 4001, 4999, 5000, 5001,
                         10000, 16667}
\* counts of active loans and of missed payments
LoanCounts == {0, 1, 3, 4, 10, 11, MaxLoans}
MissedCounts == {0, 1, 5, 6, MaxMissed}
\* playground requests: the loan asked for (amount, annual rate in hundredths
\* of a percent, its scaling e2, tenure), valid and invalid
PlaygroundLoans == {<<100000, 1000, 0, 12>>, <<10000, 100, 0, 6>>}
RejectedLoans == {<<5000, 1000, 0, 12>>, <<100000, 100, 60, 12>>, <<100000, 3050, 0, 12>>,
                  <<100000, 1000, 0, 3>>}
\* the five optional overrides (monthly_income, monthly_expenses,
\* existing_emis, credit_score, active_loans): none, one at a time (zero or
\* positive), or all
OnlyOverride(i, x) == [j \in 1..5 |-> IF j = i THEN x ELSE PyNone]
PlaygroundOverrides ==
  {[j \in 1..5 |-> PyNone]}
  \cup {OnlyOverride(1, PyInt(v)) : v \in {0, 40000, 45000, 60000}}
  \cup {OnlyOverride(2, PyInt(v)) : v \in {0, 10000}}
  \cup {OnlyOverride(3, PyInt(v)) : v \in {0, 5000}}
  \cup {OnlyOverride(4, PyInt(v)) : v \in {0, 600}}
  \cup {OnlyOverride(5, PyInt(v)) : v \in {0, 5}}
  \cup {<<PyInt(60000), PyInt(10000), PyInt(5000), PyInt(600), PyInt(5)>>,
        <<PyInt(0), PyInt(0), PyInt(0), PyInt(0), PyInt(0)>>}
\* rows of the profiles and credit_scores collections of the external store
StoredIncomes == {0, 40000, 85000}
StoredEmis == {0, 12000, 50000}
ProfileRows == [monthly_income : StoredIncomes, monthly_expenses : {20000},
                existing_emis : StoredEmis, active_loans : {0, 2, MaxLoans}]
ScoreRows == [score : {0, 300, 742, 900, 1000}]
\* the stored profiles and scores the playground is run against
PlaygroundRows == {r \in ProfileRows :
                     <<r.monthly_income, r.existing_emis, r.active_loans>>
                       \in {<<85000, 12000, 2>>, <<0, 0, 0>>, <<40000, 50000, MaxLoans>>,
                            <<40000, 0, 2>>}}
PlaygroundScores == {<<>>, <<[score |-> 600]>>, <<[score |-> 1000]>>}
StoreFailures == {"none", "connect", "score_query"}
\* what the store holds and how it answers: every stored profile and score
\* when it answers, one of each when an operation on it raises
StoreStates ==
  {<<pd, sd, "none">> : pd \in {<<>>} \cup {<<r>> : r \in PlaygroundRows},
                        sd \in PlaygroundScores}
  \cup {<<<<[monthly_income |-> 40000, monthly_expenses |-> 20000,
             existing_emis |-> 0, active_loans |-> 2]>>,
           <<[score |-> 600]>>, fail>> : fail \in StoreFailures}
\* a playground call: the overrides of the request with what the store holds.
\* Every override is tried against one answering store, and every store
\* state against a request without overrides and one with all of them.
PlaygroundCases ==
  {<<o, st>> \in PlaygroundOverrides \X StoreStates :
     \/ st = <<<<[monthly_income |-> 40000, monthly_expenses |-> 20000,
                  existing_emis |-> 0, active_loans |-> 2]>>,
               <<[score |-> 600]>>, "none">>
     \/ o = [j \in 1..5 |-> PyNone]
     \/ o = <<PyInt(60000), PyInt(10000), PyInt(5000), PyInt(600), PyInt(5)>>}

\* characters of one, two, three and four bytes
PasswordChars == {[w |-> 1, id |-> "a"], [w |-> 1, id |-> "x"], [w |-> 2, id |-> "e-acute"],
                  [w |-> 3, id |-> "euro"], [w |-> 4, id |-> "emoji"]}
RECURSIVE CharSeqs(_)
CharSeqs(n) ==
  IF n = 0 THEN {<<>>}
  ELSE CharSeqs(n - 1) \cup {Append(t, c) : t \in {u \in CharSeqs(n - 1) : Len(u) = n - 1},
                                            c \in PasswordChars}
\* passwords: up to MaxTail characters, alone (short passwords and the empty
\* one) or after 68 to 72 letters a, so that the 72nd byte falls before,
\* inside and after a character of each width
Passwords ==
  {[i \in 1..n |-> [w |-> 1, id |-> "a"]] \o tail :
     n \in {0} \cup (BcryptLimit - 4 .. BcryptLimit), tail \in CharSeqs(MaxTail)}
Salts == {"salt-1", "salt-2"}
\* passwords verified against a hash: the one that was hashed and two others
OtherPasswords == {<<>>, <<[w |-> 1, id |-> "a"]>>}

\* subjects of tokens: user ids as the store issues them, and the empty string
Subjects == {"", "1", "42", "test-user-123"}
\* the UTC time the tokens are made at, and the zones of the hosts that make
\* them, in seconds east of UTC
TokenClock == 100000
UtcOffsets == {-18000, 0, 19800}
\* expires_delta in seconds
ExpiresDeltas == {PyNone, PyInt(0), PyInt(60), PyInt(-60)}
\* seconds between making a token and presenting it
TokenAges == {0, 59, 60, 61, 1800, 1801}
\* strings presented as tokens at TokenClock that are not fresh from
\* create_access_token: no token at all, or a signed token with any subject,
\* expiring before, at or after TokenClock, signed with the key of the
\* settings or another one, by the algorithm of the settings or another one
SignedTokens ==
  {jwt_encode([sub |-> sub, exp |-> TokenClock + d, iat |-> TokenClock - 10,
               type |-> "access"], key, alg) :
     sub \in {NoSub, JsonSub("7")} \cup {StrSub(s) : s \in Subjects},
     d \in {-1, 0, 1}, key \in {jwt_secret_key, "another_key"},
     alg \in {jwt_algorithm, "HS512"}}
PresentedTokens == {NotAToken(""), NotAToken("malformed")} \cup SignedTokens
\* Authorization headers: None, the empty string, and a non-empty string
\* presented bare, after "Bearer ", after "Bearer Bearer ", after "bearer "
Headers ==
  {[none |-> TRUE, parts |-> <<>>], [none |-> FALSE, parts |-> <<>>],
   [none |-> FALSE, parts |-> <<BearerPrefix>>]}
  \cup {[none |-> FALSE, parts |-> parts] :
          parts \in UNION {{<<t>>, <<BearerPrefix, t>>, <<BearerPrefix, BearerPrefix, t>>,
                            <<NotAToken("bearer "), t>>} :
                             t \in PresentedTokens \ {NotAToken("")}}}
\* the addresses signing up, the ids the store gives to new users, and the
\* Authorization headers sent with DELETE /api/users/me: none, and tokens
\* bare or after "Bearer " that are valid, expired, signed with another key,
\* malformed, or valid with an empty subject
Emails == {"a@example.com", "b@example.com"}
StoreIds == {"1", "42"}
AccessToken(sub, d, key) ==
  jwt_encode([sub |-> StrSub(sub), exp |-> TokenClock + d, iat |-> TokenClock - 10,
              type |-> "access"], key, jwt_algorithm)
DeleteHeaders ==
  {[none |-> TRUE, parts |-> <<>>],
   [none |-> FALSE, parts |-> <<BearerPrefix, AccessToken("42", 1, jwt_secret_key)>>],
   [none |-> FALSE, parts |-> <<AccessToken("1", 1, jwt_secret_key)>>],
   [none |-> FALSE, parts |-> <<BearerPrefix, AccessToken("42", 0 - 1, jwt_secret_key)>>],
   [none |-> FALSE, parts |-> <<BearerPrefix, AccessToken("42", 1, "another_key")>>],
   [none |-> FALSE, parts |-> <<BearerPrefix, NotAToken("malformed")>>],
   [none |-> FALSE, parts |-> <<BearerPrefix, AccessToken("", 1, jwt_secret_key)>>]}
\* where a presented token comes from: a call of create_access_token, or not
NotMade == [made |-> FALSE, sub |-> NoSub, expires_delta |-> PyNone, now |-> 0,
            utc_offset |-> 0]
MadeBy(c) == [made |-> TRUE, sub |-> c.data.sub, expires_delta |-> c.expires_delta,
              now |-> c.now, utc_offset |-> c.utc_offset]

(***************************************************************************)
(* Library calls: the core is a library, any caller may hand it any        *)
(* scalar.                                                                 *)
(***************************************************************************)
\* no call in progress: the core and the handlers keep no state between calls
Idle == call.fn = "none"

\* the result is handed back to the caller
Done ==
  /\ UNCHANGED shared
  /\ ~Idle
  /\ call' = [fn |-> "none"]
  /\ ret' = NoResult

CallCalculateChi ==
  /\ UNCHANGED shared
  /\ Idle
  /\ \E cs \in ValidScores \cup StrayScores, r \in ValidRatios \cup StrayRatios,
        l \in LoanCounts, m \in MissedCounts, err \in FloatErr :
       /\ call' = [fn |-> "calculate_chi", credit_score |-> cs,
                   emi_to_income_ratio |-> Rat(r, 100),
                   active_loans |-> l, missed_payments |-> m]
       /\ ret' = ReturnedInt(calculate_chi(cs, Rat(r, 100), l, m, err))

\* calculate_chi is called once more with one argument raised and the others
\* as they were.  Arguments that give the same components give the same
\* float: the representation error of the second sum is then one the first
\* result is consistent with.
\* the representation errors that tell two roundings of q apart: off a tie
\* every error rounds alike
ErrorsAt(q) == IF 2 * (q.num - (q.num \div q.den) * q.den) = q.den THEN FloatErr ELSE {0}

ChiAgain(which, cs, r, l, m) ==
  \E err \in ErrorsAt(chi_sum(cs, r, l, m)) :
    /\ chi_sum(cs, r, l, m)
         = chi_sum(call.credit_score, call.emi_to_income_ratio, call.active_loans,
                   call.missed_payments)
         => ret.int = calculate_chi(call.credit_score, call.emi_to_income_ratio,
                                    call.active_loans, call.missed_payments, err)
    /\ call' = [fn |-> "calculate_chi_again", credit_score |-> cs,
                emi_to_income_ratio |-> r, active_loans |-> l,
                missed_payments |-> m, raised |-> which, first |-> ret.int]
    /\ ret' = ReturnedInt(calculate_chi(cs, r, l, m, err))

CallCalculateChiAgain ==
  /\ UNCHANGED shared
  /\ call.fn = "calculate_chi"
  /\ \/ \E cs \in ValidScores \cup StrayScores :
          /\ cs > call.credit_score
          /\ ChiAgain("credit_score", cs, call.emi_to_income_ratio, call.active_loans,
                      call.missed_payments)
     \/ \E r \in ValidRatios \cup StrayRatios :
          /\ RLess(call.emi_to_income_ratio, Rat(r, 100))
          /\ ChiAgain("emi_to_income_ratio", call.credit_score, Rat(r, 100),
                      call.active_loans, call.missed_payments)
     \/ \E l \in LoanCounts :
          /\ l > call.active_loans
          /\ ChiAgain("active_loans", call.credit_score, call.emi_to_income_ratio, l,
                      call.missed_payments)
     \/ \E m \in MissedCounts :
          /\ m > call.missed_payments
          /\ ChiAgain("missed_payments", call.credit_score, call.emi_to_income_ratio,
                      call.active_loans, m)

CallGetRiskLevel ==
  /\ UNCHANGED shared
  /\ Idle
  /\ \E chi \in (0 - 10)..MaxChiProbe :
       /\ call' = [fn |-> "get_risk_level", chi_score |-> chi]
       /\ ret' = ReturnedStr(get_risk_level(chi))

CallCalculateEmi ==
  /\ UNCHANGED shared
  /\ Idle
  /\ \E terms \in LoanTerms, err \in FloatErr :
       /\ call' = [fn |-> "calculate_emi", principal |-> terms[1],
                   annual_rate |-> Scaled(Rat(terms[2], 100), terms[3]),
                   tenure_months |-> terms[4]]
       /\ ret' = calculate_emi(terms[1], Scaled(Rat(terms[2], 100), terms[3]), terms[4], err)

\* the caller passes the EMI just computed on to calculate_total_interest,
\* with the same principal and tenure (loans/routes.py lines 86-87, 156-157)
CallCalculateTotalInterest ==
  /\ UNCHANGED shared
  /\ call.fn = "calculate_emi"
  /\ ret.raised = "none"
  /\ \E err \in FloatErr :
       /\ call' = [fn |-> "calculate_total_interest", principal |-> call.principal,
                   annual_rate |-> call.annual_rate, emi |-> ret.value,
                   tenure_months |-> call.tenure_months]
       /\ ret' = Returned(calculate_total_interest(call.principal, ret.value,
                                                  call.tenure_months, err))

CallCalculateEmiToIncomeRatio ==
  /\ UNCHANGED shared
  /\ Idle
  /\ \E e \in EmiAmounts, income \in MonthlyIncomes, err \in FloatErr :
       /\ call' = [fn |-> "calculate_emi_to_income_ratio", emi |-> Rat(e, 100),
                   monthly_income |-> RInt(income)]
       /\ ret' = calculate_emi_to_income_ratio(Rat(e, 100), RInt(income), err)

CallGenerateRiskAlerts ==
  /\ UNCHANGED shared
  /\ Idle
  /\ \E s \in Snapshots, now \in ClockTicks, err1 \in FloatErr, err2 \in FloatErr :
       /\ call' = [fn |-> "generate_risk_alerts", credit_score |-> s[1],
                   monthly_income |-> RInt(s[2]), monthly_expenses |-> RInt(s[3]),
                   existing_emis |-> RInt(s[4]), credit_utilization |-> s[5],
                   active_loans |-> s[6], score_trend |-> s[7],
                   float_err |-> <<err1, err2>>]
       /\ ret' = [raised |-> "none",
                  alerts |-> generate_risk_alerts(s[1], RInt(s[2]), RInt(s[3]), RInt(s[4]),
                                                  s[5], s[6], s[7], now, err1, err2)]

\* the Rule Engine is asked again about the snapshot it has just answered
\* for.  The same numbers give the same floats, so the representation errors
\* are those of the first evaluation; only the clock has moved on.
CallGenerateRiskAlertsAgain ==
  /\ UNCHANGED shared
  /\ call.fn = "generate_risk_alerts"
  /\ \E now \in ClockTicks :
       /\ call' = [fn |-> "generate_risk_alerts_again", credit_score |-> call.credit_score,
                   monthly_income |-> call.monthly_income,
                   monthly_expenses |-> call.monthly_expenses,
                   existing_emis |-> call.existing_emis,
                   credit_utilization |-> call.credit_utilization,
                   active_loans |-> call.active_loans, score_trend |-> call.score_trend,
                   float_err |-> call.float_err, first |-> ret.alerts]
       /\ ret' = [raised |-> "none",
                  alerts |-> generate_risk_alerts(call.credit_score, call.monthly_income,
                               call.monthly_expenses, call.existing_emis,
                               call.credit_utilization, call.active_loans,
                               call.score_trend, now, call.float_err[1],
                               call.float_err[2])]

CallGetAlertCounts ==
  /\ UNCHANGED shared
  /\ Idle
  /\ \E alerts \in AlertLists(MaxAlerts) :
       /\ call' = [fn |-> "get_alert_counts", alerts |-> alerts]
       /\ ret' = [raised |-> "none", counts |-> get_alert_counts(alerts)]

CallSimulateAction ==
  /\ UNCHANGED shared
  /\ Idle
  /\ \E action_id \in KnownActionIds \cup UnknownActionIds, current_score \in SimScores :
       /\ call' = [fn |-> "simulate_action", action_id |-> action_id,
                   current_score |-> current_score]
       /\ ret' = [raised |-> "none", result |-> simulate_action(action_id, current_score)]

PostSimulate ==
  /\ UNCHANGED shared
  /\ Idle
  /\ \E action_id \in KnownActionIds \cup UnknownActionIds, current_score \in RequestScores,
        score_data \in {<<>>} \cup {<<r>> : r \in ScoreRows}, fail \in BOOLEAN :
       /\ call' = [fn |-> "run_simulation", action_id |-> action_id,
                   current_score |-> current_score, score_data |-> score_data, fail |-> fail]
       /\ ret' = run_simulation([action_id |-> action_id, current_score |-> current_score],
                                score_data, fail)

CallGetLoanRecommendation ==
  /\ UNCHANGED shared
  /\ Idle
  /\ \E r \in RecommendationRatios :
       /\ call' = [fn |-> "get_loan_recommendation", emi_ratio |-> Rat(r, 100)]
       /\ ret' = ReturnedStr(get_loan_recommendation(Rat(r, 100)))

CallCreateAccessToken ==
  /\ UNCHANGED shared
  /\ Idle
  /\ \E s \in Subjects, expires_delta \in ExpiresDeltas, utc_offset \in UtcOffsets :
       /\ call' = [fn |-> "create_access_token", data |-> [sub |-> StrSub(s)],
                   expires_delta |-> expires_delta, now |-> TokenClock,
                   utc_offset |-> utc_offset]
       /\ ret' = [raised |-> "none",
                  token |-> create_access_token([sub |-> StrSub(s)], expires_delta,
                                                TokenClock, utc_offset)]

\* a string is presented as a token
CallDecodeToken ==
  /\ UNCHANGED shared
  /\ Idle
  /\ \E token \in PresentedTokens :
       /\ call' = [fn |-> "decode_token", token |-> token, now |-> TokenClock,
                   origin |-> NotMade]
       /\ ret' = decode_token(token, TokenClock)

CallGetTokenData ==
  /\ UNCHANGED shared
  /\ Idle
  /\ \E token \in PresentedTokens :
       /\ call' = [fn |-> "get_token_data", token |-> token, now |-> TokenClock,
                   origin |-> NotMade]
       /\ ret' = [raised |-> "none", token_data |-> get_token_data(token, TokenClock)]

\* the token create_access_token has made is presented some time later
CallDecodeMadeToken ==
  /\ UNCHANGED shared
  /\ call.fn = "create_access_token"
  /\ \E age \in TokenAges :
       /\ call' = [fn |-> "decode_token", token |-> ret.token, now |-> call.now + age,
                   origin |-> MadeBy(call)]
       /\ ret' = decode_token(ret.token, call.now + age)

CallGetTokenDataOfMadeToken ==
  /\ UNCHANGED shared
  /\ call.fn = "create_access_token"
  /\ \E age \in TokenAges :
       /\ call' = [fn |-> "get_token_data", token |-> ret.token, now |-> call.now + age,
                   origin |-> MadeBy(call)]
       /\ ret' = [raised |-> "none",
                  token_data |-> get_token_data(ret.token, call.now + age)]

\* a route asks whom it works for
CallGetCurrentUserId ==
  /\ UNCHANGED shared
  /\ Idle
  /\ \E authorization \in Headers :
       /\ call' = [fn |-> "get_current_user_id", authorization |-> authorization,
                   now |-> TokenClock]
       /\ ret' = ReturnedStr(get_current_user_id(authorization, TokenClock))

CallHashPassword ==
  /\ UNCHANGED shared
  /\ Idle
  /\ \E password \in Passwords, salt \in Salts :
       /\ call' = [fn |-> "hash_password", password |-> password]
       /\ ret' = hash_password(password, salt)

\* a password is verified against the hash that has just been made
CallVerifyPassword ==
  /\ UNCHANGED shared
  /\ call.fn = "hash_password"
  /\ ret.raised = "none"
  /\ \E plain_password \in {call.password} \cup OtherPasswords :
       /\ call' = [fn |-> "verify_password", plain_password |-> plain_password,
                   hashed_password |-> ret.hashed, hashed_from |-> call.password]
       /\ ret' = [raised |-> "none", ok |-> verify_password(plain_password, ret.hashed)]

\* a password is verified against a string that is no hash
CallVerifyPasswordWithoutHash ==
  /\ UNCHANGED shared
  /\ Idle
  /\ \E plain_password \in OtherPasswords, text \in {"", "garbage"} :
       /\ call' = [fn |-> "verify_password", plain_password |-> plain_password,
                   hashed_password |-> NotAHash(text), hashed_from |-> <<>>]
       /\ ret' = [raised |-> "none", ok |-> verify_password(plain_password, NotAHash(text))]

(***************************************************************************)
(* Requests to the loan endpoints.                                         *)
(***************************************************************************)
PostPlaygroundCalculate ==
  /\ UNCHANGED shared
  /\ Idle
  /\ \E loan \in PlaygroundLoans \cup RejectedLoans, c \in PlaygroundCases,
        err1 \in FloatErr, err2 \in FloatErr :
       LET o == c[1]
           profile_data == c[2][1]
           score_data == c[2][2]
           fail == c[2][3]
           request == [loan_amount |-> loan[1],
                       interest_rate |-> Scaled(Rat(loan[2], 100), loan[3]),
                       tenure_months |-> loan[4],
                       monthly_income |-> o[1], monthly_expenses |-> o[2],
                       existing_emis |-> o[3], credit_score |-> o[4],
                       active_loans |-> o[5]]
       IN  /\ LoanCalculateRequest(request)
           /\ call' = [fn |-> "calculate_loan", request |-> request,
                       profile_data |-> profile_data, score_data |-> score_data,
                       fail |-> fail]
           /\ ret' = calculate_loan(request, profile_data, score_data, fail, err1, err2)

(***************************************************************************)
(* Requests to the CHI endpoints.                                          *)
(***************************************************************************)
PostChiCalculate ==
  /\ UNCHANGED shared
  /\ Idle
  /\ \E cs \in ValidScores \cup StrayScores, r \in ValidRatios \cup StrayRatios,
        l \in LoanCounts, m \in MissedCounts, err1 \in FloatErr, err2 \in FloatErr :
       LET params == [credit_score |-> cs, emi_to_income_ratio |-> Rat(r, 100),
                      active_loans |-> l, missed_payments |-> m]
       IN  /\ CHICalculateRequest(params)
           /\ call' = [fn |-> "calculate_chi_score", credit_score |-> cs,
                       emi_to_income_ratio |-> Rat(r, 100),
                       active_loans |-> l, missed_payments |-> m]
           /\ ret' = calculate_chi_score(params, err1, err2)

GetChiCurrent ==
  /\ UNCHANGED shared
  /\ Idle
  /\ \E profile_data \in {<<>>} \cup {<<p>> : p \in ProfileRows},
        score_data \in {<<>>} \cup {<<r>> : r \in ScoreRows},
        fail \in StoreFailures, err1 \in FloatErr, err2 \in FloatErr :
       /\ call' = [fn |-> "get_current_chi", profile_data |-> profile_data,
                   score_data |-> score_data, fail |-> fail]
       /\ ret' = get_current_chi(profile_data, score_data, fail, err1, err2)

\* the user who has just read the Credit Health Index opens the playground:
\* a request without overrides, answered from the same rows of the store
PostPlaygroundCalculateAfterChi ==
  /\ UNCHANGED shared
  /\ call.fn = "get_current_chi"
  /\ \E err1 \in FloatErr, err2 \in FloatErr :
       LET request == [loan_amount |-> 10000, interest_rate |-> Scaled(Rat(1, 1), 0),
                       tenure_months |-> 6,
                       monthly_income |-> PyNone, monthly_expenses |-> PyNone,
                       existing_emis |-> PyNone, credit_score |-> PyNone,
                       active_loans |-> PyNone]
       IN  /\ LoanCalculateRequest(request)
           /\ call' = [fn |-> "calculate_loan_after_chi", request |-> request,
                       profile_data |-> call.profile_data, score_data |-> call.score_data,
                       fail |-> call.fail, chi |-> ret]
           /\ ret' = calculate_loan(request, call.profile_data, call.score_data,
                                    call.fail, err1, err2)

Init ==
  /\ call = [fn |-> "none"]
  /\ ret = NoResult
  /\ catalogs = StaticCatalogs
  /\ threads = [t \in Threads |-> NoFrame]
  /\ users = {}
  /\ profiles = {}
  /\ requests = [w \in Workers |-> NoRequest]

Next ==
  \/ CallCalculateChi
  \/ CallGetRiskLevel
  \/ CallCalculateEmi
  \/ CallCalculateTotalInterest
  \/ PostChiCalculate
  \/ GetChiCurrent
  \/ CallCalculateEmiToIncomeRatio
  \/ CallGenerateRiskAlerts
  \/ CallGenerateRiskAlertsAgain
  \/ CallGetAlertCounts
  \/ CallSimulateAction
  \/ PostSimulate
  \/ CallGetLoanRecommendation
  \/ PostPlaygroundCalculate
  \/ CallHashPassword
  \/ CallVerifyPassword
  \/ CallVerifyPasswordWithoutHash
  \/ CallCreateAccessToken
  \/ CallDecodeToken
  \/ CallGetTokenData
  \/ CallDecodeMadeToken
  \/ CallGetTokenDataOfMadeToken
  \/ CallGetCurrentUserId
  \/ Done

Spec == Init /\ [][Next]_vars

(***************************************************************************)
(* The core functions of risk_rules.py called by several threads at once.  *)
(* A step is one statement or one pass of a loop of one call.              *)
(***************************************************************************)
Running(t) == threads[t].pc \notin {"idle", "returned"}

\* generate_risk_alerts up to the head of its loop
EnterGenerateRiskAlerts(t) ==
  /\ threads[t].fn = "none"
  /\ \E s \in CoreSnapshots, now \in ClockTicks, err \in CoreFloatErr :
       LET args == [credit_score |-> s[1], monthly_income |-> RInt(s[2]),
                    monthly_expenses |-> RInt(s[3]), existing_emis |-> RInt(s[4]),
                    credit_utilization |-> s[5], active_loans |-> s[6],
                    score_trend |-> s[7], float_err |-> err]
       IN  threads' = [threads EXCEPT ![t] =
                         [fn |-> "generate_risk_alerts", pc |-> "loop", args |-> args,
                          profile |-> risk_profile(args), alerts |-> new_alerts(threads, t),
                          now |-> now, i |-> 1,
                          overlaps |-> \E u \in Threads : u # t /\ Running(u)]]
  /\ UNCHANGED <<call, ret, catalogs, users, profiles, requests>>

\* one pass of its loop, over the rule the module-level list holds at i
EvaluateRule(t) ==
  /\ threads[t].fn = "generate_risk_alerts" /\ threads[t].pc = "loop"
  /\ threads[t].i <= Len(catalogs.RISK_RULES)
  /\ threads' = [threads EXCEPT ![t].alerts = rule_step(@, catalogs.RISK_RULES[threads[t].i],
                                                        threads[t].profile, threads[t].now),
                                ![t].i = @ + 1]
  /\ UNCHANGED <<call, ret, catalogs, users, profiles, requests>>

\* alerts.sort(...); return alerts
ReturnAlerts(t) ==
  /\ threads[t].fn = "generate_risk_alerts" /\ threads[t].pc = "loop"
  /\ threads[t].i > Len(catalogs.RISK_RULES)
  /\ threads' = [threads EXCEPT ![t].pc = "returned",
                                ![t].alerts = sort_by_severity(@)]
  /\ UNCHANGED <<call, ret, catalogs, users, profiles, requests>>

EnterGetAlertCounts(t) ==
  /\ threads[t].fn = "none"
  /\ \E alerts \in CoreAlertLists :
       threads' = [threads EXCEPT ![t] =
                     [fn |-> "get_alert_counts", pc |-> "loop", args |-> [alerts |-> alerts],
                      counts |-> new_counts, i |-> 1,
                      overlaps |-> \E u \in Threads : u # t /\ Running(u)]]
  /\ UNCHANGED <<call, ret, catalogs, users, profiles, requests>>

CountAlert(t) ==
  /\ threads[t].fn = "get_alert_counts" /\ threads[t].pc = "loop"
  /\ threads[t].i <= Len(threads[t].args.alerts)
  /\ threads' = [threads EXCEPT ![t].counts = count_step(@, threads[t].args.alerts[threads[t].i]),
                                ![t].i = @ + 1]
  /\ UNCHANGED <<call, ret, catalogs, users, profiles, requests>>

ReturnCounts(t) ==
  /\ threads[t].fn = "get_alert_counts" /\ threads[t].pc = "loop"
  /\ threads[t].i > Len(threads[t].args.alerts)
  /\ threads' = [threads EXCEPT ![t].pc = "returned"]
  /\ UNCHANGED <<call, ret, catalogs, users, profiles, requests>>

\* get_simulation_action: it only reads the list, and returns at once
LookUpSimulationAction(t) ==
  /\ threads[t].fn = "none"
  /\ \E action_id \in CoreActionIds :
       threads' = [threads EXCEPT ![t] =
                     [fn |-> "get_simulation_action", pc |-> "returned",
                      args |-> [action_id |-> action_id],
                      action |-> find_action(catalogs.SIMULATION_ACTIONS, action_id),
                      overlaps |-> \E u \in Threads : u # t /\ Running(u)]]
  /\ UNCHANGED <<call, ret, catalogs, users, profiles, requests>>

\* simulate_action up to the return of its call of get_simulation_action
EnterSimulateAction(t) ==
  /\ threads[t].fn = "none"
  /\ \E action_id \in CoreActionIds, current_score \in CoreScores :
       threads' = [threads EXCEPT ![t] =
                     [fn |-> "simulate_action", pc |-> "found",
                      args |-> [action_id |-> action_id, current_score |-> current_score],
                      action |-> find_action(catalogs.SIMULATION_ACTIONS, action_id),
                      overlaps |-> \E u \in Threads : u # t /\ Running(u)]]
  /\ UNCHANGED <<call, ret, catalogs, users, profiles, requests>>

\* the rest of simulate_action: the projection and the dictionary returned
ReturnSimulation(t) ==
  /\ threads[t].fn = "simulate_action" /\ threads[t].pc = "found"
  /\ threads' = [threads EXCEPT ![t] =
                    [fn |-> "simulate_action", pc |-> "returned", args |-> threads[t].args,
                     action |-> threads[t].action, overlaps |-> threads[t].overlaps,
                     result |-> simulation_result(threads[t].action,
                                                  threads[t].args.current_score)]]
  /\ UNCHANGED <<call, ret, catalogs, users, profiles, requests>>

\* the caller drops the frame of a call that has returned
LeaveCore(t) ==
  /\ threads[t].pc = "returned"
  /\ threads' = [threads EXCEPT ![t] = NoFrame]
  /\ UNCHANGED <<call, ret, catalogs, users, profiles, requests>>

\* what a call that has returned hands to its caller
Result(frame) ==
  CASE frame.fn = "generate_risk_alerts" -> frame.alerts
    [] frame.fn = "get_alert_counts" -> frame.counts
    [] frame.fn = "get_simulation_action" -> frame.action
    [] frame.fn = "simulate_action" -> frame.result

NextCore ==
  \E t \in Threads :
    \/ EnterGenerateRiskAlerts(t)
    \/ EvaluateRule(t)
    \/ ReturnAlerts(t)
    \/ EnterGetAlertCounts(t)
    \/ CountAlert(t)
    \/ ReturnCounts(t)
    \/ LookUpSimulationAction(t)
    \/ EnterSimulateAction(t)
    \/ ReturnSimulation(t)
    \/ LeaveCore(t)

(***************************************************************************)
(* auth/routes.py signup and users/routes.py delete_account, served by     *)
(* several processes against the one store.  A step is one operation on    *)
(* the store with the lines of the handler up to the next one.             *)
(***************************************************************************)
Respond(w, request, status_code) ==
  requests' = [requests EXCEPT ![w] = [request EXCEPT !.pc = "done", !.status = status_code]]

\* signup up to "Hash password": the select on users by email, 500 when the
\* store raises and 400 when it answers with a row
SignupCheck(w) ==
  /\ requests[w].op = "none"
  /\ \E email \in Emails, answers \in BOOLEAN :
       LET request == [op |-> "signup", pc |-> "absent", email |-> email,
                       user_id |-> NoneStr, status |-> 0]
       IN  IF ~answers THEN Respond(w, request, 500)
           ELSE IF select_users_by_email(users, email) # {} THEN Respond(w, request, 400)
           ELSE requests' = [requests EXCEPT ![w] = request]
  /\ UNCHANGED <<call, ret, catalogs, threads, users, profiles>>

\* from there to the insert into users and "user_id = str(user["id"])": 500
\* when the store raises or answers without a row
SignupInsertUser(w) ==
  /\ requests[w].op = "signup" /\ requests[w].pc = "absent"
  /\ \/ \E id \in StoreIds \ {r.id : r \in users} :
          /\ users' = insert_user(users, id, requests[w].email)
          /\ requests' = [requests EXCEPT ![w].pc = "inserted", ![w].user_id = SomeStr(id)]
     \/ /\ Respond(w, requests[w], 500)
        /\ UNCHANGED users
  /\ UNCHANGED <<call, ret, catalogs, threads, profiles>>

\* the insert into profiles, whose failure is only logged, the token and
\* the answer 201
SignupInsertProfile(w) ==
  /\ requests[w].op = "signup" /\ requests[w].pc = "inserted"
  /\ \/ profiles' = insert_profile(profiles, requests[w].user_id.str)
     \/ UNCHANGED profiles
  /\ Respond(w, requests[w], 201)
  /\ UNCHANGED <<call, ret, catalogs, threads, users>>

\* DELETE /api/users/me: the delete on users by the id of the caller, with
\* the cascade of the store; 500 when the store raises
DeleteAccount(w) ==
  /\ requests[w].op = "none"
  /\ \E authorization \in DeleteHeaders, answers \in BOOLEAN :
       LET user_id == get_current_user_id(authorization, TokenClock)
           left == IF answers THEN delete_user(users, user_id) ELSE users
       IN  /\ users' = left
           /\ profiles' = cascade(profiles, left)
           /\ requests' = [requests EXCEPT ![w] =
                             [op |-> "delete", pc |-> "done", authorization |-> authorization,
                              now |-> TokenClock, deleted |-> users \ left,
                              status |-> IF answers THEN 200 ELSE 500]]
  /\ UNCHANGED <<call, ret, catalogs, threads>>

\* the answer has gone out: the process takes its next request
CloseRequest(w) ==
  /\ requests[w].pc = "done"
  /\ requests' = [requests EXCEPT ![w] = NoRequest]
  /\ UNCHANGED <<call, ret, catalogs, threads, users, profiles>>

NextStore ==
  \E w \in Workers :
    \/ SignupCheck(w)
    \/ SignupInsertUser(w)
    \/ SignupInsertProfile(w)
    \/ DeleteAccount(w)
    \/ CloseRequest(w)

SpecStore == Init /\ [][NextStore]_vars

\* the Credit Health Index asked twice, and asked by the loan playground
NextChi ==
  \/ CallCalculateChi
  \/ CallCalculateChiAgain
  \/ PostPlaygroundCalculate
  \/ GetChiCurrent
  \/ PostPlaygroundCalculateAfterChi
  \/ Done

SpecChi == Init /\ [][NextChi]_vars

SpecCore == Init /\ [][NextCore]_vars

(***************************************************************************)
(* Properties of the Composite Scorer.                                     *)
(***************************************************************************)
\* C1: for credit_score in 300..900, emi_to_income_ratio in 0..100,
\* active_loans >= 0 and missed_payments >= 0, calculate_chi returns an
\* integer between 0 and 100 (and the calculate endpoint answers 200 with it).
C1_ChiWithinRangeOnValidInput ==
  /\ (call.fn = "calculate_chi" /\ CHICalculateRequest(call))
       => (ret.raised = "none" /\ ret.int \in 0..100)
  /\ call.fn = "calculate_chi_score"
       => (ret.status = 200 /\ ret.chi_score \in 0..100)

\* the worst valid input: lowest score, full EMI burden, many loans, many misses
C1_Witness ==
  /\ call.fn = "calculate_chi_score"
  /\ call.credit_score = 300
  /\ call.emi_to_income_ratio = RInt(100)
  /\ call.active_loans = MaxLoans
  /\ call.missed_payments = MaxMissed
  /\ ret.chi_score = 13

\* C2: the CHI is within 0..100 for whatever scalars calculate_chi is handed,
\* also a credit score outside 300..900 or a ratio outside 0..100, as stored
\* data can supply them to GET /api/chi/current.
C2_ChiAlwaysClamped ==
  /\ call.fn = "calculate_chi" => ret.int \in 0..100
  /\ call.fn = "get_current_chi" => ret.chi_score \in 0..100

\* the sum of the four component_score values of a breakdown
BreakdownSum(b) ==
  RAdd(RAdd(RAdd(b.credit_score.component_score, b.emi_ratio.component_score),
            b.active_loans.component_score),
       b.missed_payments.component_score)

\* nearest integer, ties away from the lower integer (round half up)
RoundHalfUp(q) == round_float(q, 1)

\* C3: for every valid input the component scores of get_chi_breakdown sum,
\* after rounding to the nearest integer (by banker's rounding or by rounding
\* half up), to the value of calculate_chi for the same input.
C3_BreakdownSumsToChi ==
  call.fn = "calculate_chi_score" =>
    \/ round_float(BreakdownSum(ret.breakdown), 0) = ret.chi_score
    \/ RoundHalfUp(BreakdownSum(ret.breakdown)) = ret.chi_score

\* C4: get_risk_level maps every integer CHI to exactly one level: low iff
\* chi >= 70, medium iff 40 <= chi <= 69, high iff chi < 40.
C4_RiskLevelPartition ==
  call.fn = "get_risk_level" =>
    /\ ret.str \in {"low", "medium", "high"}
    /\ ret.str = "low" <=> call.chi_score >= 70
    /\ ret.str = "medium" <=> (call.chi_score >= 40 /\ call.chi_score <= 69)
    /\ ret.str = "high" <=> call.chi_score < 40

C4_Witness ==
  /\ call.fn = "get_risk_level"
  /\ call.chi_score = 70
  /\ ret.str = "low"

\* the integer nearest to credit_score / 900 * 40 = 2 * credit_score / 45
IsRoundedCreditComponent(k, credit_score) ==
  2 * Abs(45 * k - 2 * credit_score) <= 45

C6_EmiSoftFail ==
  (call.fn = "calculate_emi" /\ (call.principal <= 0 \/ call.tenure_months <= 0))
    => ret = Returned(RInt(0))

\* a zero tenure with a positive principal and rate: the division that would
\* raise is never reached
C6_Witness ==
  /\ call.fn = "calculate_emi"
  /\ call.principal = 100000
  /\ call.annual_rate = Scaled(RInt(10), 0)
  /\ call.tenure_months = 0
  /\ ret = Returned(RInt(0))

\* C7: for principal > 0, tenure_months > 0 and annual_rate <= 0 the result
\* is exactly principal / tenure_months; calculate_emi(100000, 0, 10) = 10000.
C7_EmiInterestFree ==
  call.fn = "calculate_emi" =>
    /\ (call.principal > 0 /\ call.tenure_months > 0 /\ RLeq(call.annual_rate, RInt(0)))
         => /\ ret.raised = "none"
            /\ ret.value.num * call.tenure_months = call.principal * ret.value.den
    /\ (call.principal = 100000 /\ call.annual_rate = Scaled(RInt(0), 0) /\ call.tenure_months = 10)
         => ret = Returned(RInt(10000))

C7_Witness ==
  /\ call.fn = "calculate_emi"
  /\ call.principal = 100
  /\ call.annual_rate = Scaled(RInt(0 - 1), 0)
  /\ call.tenure_months = 3
  /\ ret = Returned(Rat(100, 3))

\* a whole number of hundredths (q is in lowest terms)
IsTwoDecimals(q) == 100 % q.den = 0

\* C8: the value calculate_emi returns is rounded to 2 decimal places on
\* every path: soft-fail, interest-free and annuity.
C8_EmiTwoDecimals ==
  (call.fn = "calculate_emi" /\ ret.raised = "none") => IsTwoDecimals(ret.value)

\* What n monthly payments of e200 / 200 have grown to after n months at the
\* monthly rate (x - b) / b, scaled by 200 * b^n: each month the payments
\* made so far accrue interest and one more payment is added.
RECURSIVE PaidAfter(_, _, _, _)
PaidAfter(n, x, b, e200) ==
  IF n = 0 THEN <<>>
  ELSE BigAdd(BigMul(x, PaidAfter(n - 1, x, b, e200)),
              BigMul(BigFromInt(e200), BigPow(b, n)))

\* what the principal has grown to after n months, on the same scale
OwedAfter(n, x, principal) == BigMul(BigFromInt(200 * principal), BigPow(x, n))

\* cents / 100 is the payment that amortizes the loan in exactly n months at
\* the monthly rate, to the nearest cent: half a cent less leaves a debt,
\* half a cent more overpays
AmortizesToTheCent(cents, principal, rate, n) ==
  LET b == scaled_den(rate)
      x == BigAdd(BigFromInt(rate.num), b)
  IN  /\ BigCmp(PaidAfter(n, x, b, 2 * cents - 1), OwedAfter(n, x, principal)) <= 0
      /\ BigCmp(PaidAfter(n, x, b, 2 * cents + 1), OwedAfter(n, x, principal)) >= 0

\* C9: for principal > 0, annual_rate > 0 and tenure_months > 0 calculate_emi
\* is the standard annuity payment at the monthly rate annual_rate / 12 / 100,
\* rounded to 2 decimals; 8791.59 for (100000, 10, 12).
C9_EmiIsAnnuityPayment ==
  call.fn = "calculate_emi" =>
    /\ (call.principal > 0 /\ call.tenure_months > 0 /\ RLess(RInt(0), call.annual_rate))
         => /\ ret.raised = "none"
            /\ IsTwoDecimals(ret.value)
            /\ AmortizesToTheCent((100 * ret.value.num) \div ret.value.den, call.principal,
                                  Scaled(Rat(call.annual_rate.num, 1200 * call.annual_rate.den),
                                         call.annual_rate.e2),
                                  call.tenure_months)
    /\ (call.principal = 100000 /\ call.annual_rate = Scaled(RInt(10), 0) /\ call.tenure_months = 12)
         => ret = Returned(Rat(879159, 100))

\* C10: for principal > 0, annual rate >= 0 and tenure > 0,
\* calculate_total_interest(P, calculate_emi(P, r, n), n) >= 0.
C10_TotalInterestNonNegative ==
  (call.fn = "calculate_total_interest" /\ call.principal > 0
   /\ RLeq(RInt(0), call.annual_rate) /\ call.tenure_months > 0)
    => ret.value.num >= 0

(***************************************************************************)
(* Properties of the affordability helpers.                                *)
(***************************************************************************)
\* q is x rounded to the nearest hundredth: a whole number of hundredths at
\* most half a hundredth away from x
IsNearestHundredth(q, x) ==
  /\ IsTwoDecimals(q)
  /\ 2 * Abs(RSub(RMul(q, RInt(100)), RMul(x, RInt(100))).num)
       <= RSub(RMul(q, RInt(100)), RMul(x, RInt(100))).den

\* C11: calculate_emi_to_income_ratio returns the sentinel 100.0 whenever
\* monthly_income <= 0, for any emi and without error, and otherwise
\* emi / monthly_income * 100 rounded to 2 decimals, not capped at 100.
C11_EmiRatioSentinelAndUncapped ==
  call.fn = "calculate_emi_to_income_ratio" =>
    /\ RLeq(call.monthly_income, RInt(0)) => ret = Returned(RInt(100))
    /\ RLess(RInt(0), call.monthly_income) =>
         /\ ret.raised = "none"
         /\ IsNearestHundredth(ret.value,
                               RMul(RDiv(call.emi, call.monthly_income), RInt(100)))

\* EMIs of 50000 on an income of 40000: 125 percent
C11_Witness ==
  /\ call.fn = "calculate_emi_to_income_ratio"
  /\ call.emi = RInt(50000)
  /\ call.monthly_income = RInt(40000)
  /\ ret = Returned(RInt(125))

(***************************************************************************)
(* Properties of the Rule Engine.                                          *)
(***************************************************************************)
\* the position of a rule in the catalog
RuleIndex(id) == CHOOSE k \in 1..Len(RISK_RULES) : RISK_RULES[k].id = id

\* high before medium before low
SeverityRank(severity) ==
  IF severity = "high" THEN 0 ELSE IF severity = "medium" THEN 1 ELSE 2

\* the ids of a list of alerts
AlertIds(alerts) == [i \in 1..Len(alerts) |-> alerts[i].id]

\* C12: the list generate_risk_alerts returns is ordered high, medium, low,
\* and alerts of equal severity are in the order of their rules in RISK_RULES.
C12_AlertsOrderedBySeverity ==
  call.fn = "generate_risk_alerts" =>
    \A i \in 1..Len(ret.alerts) : \A j \in 1..Len(ret.alerts) :
      i < j =>
        /\ ret.alerts[i].severity \in {"high", "medium", "low"}
        /\ SeverityRank(ret.alerts[i].severity) <= SeverityRank(ret.alerts[j].severity)
        /\ ret.alerts[i].severity = ret.alerts[j].severity
             => RuleIndex(ret.alerts[i].id) < RuleIndex(ret.alerts[j].id)

\* all three severities, a high rule moved before a medium rule that precedes
\* it in the catalog, and two pairs of equal severity
C12_Witness ==
  /\ call.fn = "generate_risk_alerts"
  /\ AlertIds(ret.alerts) = <<"high_emi_burden", "very_high_utilization",
                              "high_credit_utilization", "multiple_active_loans",
                              "score_improvement">>

\* the number of alerts of a list that carry the severity s
NumWithSeverity(alerts, s) ==
  Cardinality({i \in 1..Len(alerts) :
                 "severity" \in DOMAIN alerts[i] /\ alerts[i].severity = s})

\* the number of alerts of a list that carry no severity at all
NumWithoutSeverity(alerts) ==
  Cardinality({i \in 1..Len(alerts) : "severity" \notin DOMAIN alerts[i]})

\* C13 as stated: get_alert_counts returns exactly the keys high, medium and
\* low, each count is the number of alerts with that severity, and an alert
\* whose severity is none of the three changes no count.
C13_CountsBySeverity ==
  call.fn = "get_alert_counts" =>
    /\ DOMAIN ret.counts = {"high", "medium", "low"}
    /\ \A s \in {"high", "medium", "low"} :
         ret.counts[s] = NumWithSeverity(call.alerts, s)

\* C13 amended: exactly the keys high, medium and low; high and medium count
\* the alerts with that severity, low counts the alerts with severity low
\* and the alerts without a severity key; an alert with any other severity
\* changes no count.
C13_CountsWithDefaultLow ==
  call.fn = "get_alert_counts" =>
    /\ DOMAIN ret.counts = {"high", "medium", "low"}
    /\ ret.counts["high"] = NumWithSeverity(call.alerts, "high")
    /\ ret.counts["medium"] = NumWithSeverity(call.alerts, "medium")
    /\ ret.counts["low"] = NumWithSeverity(call.alerts, "low")
                             + NumWithoutSeverity(call.alerts)

\* an alert without severity next to a low one and one outside the catalog
C13_Witness ==
  /\ call.fn = "get_alert_counts"
  /\ call.alerts = <<[id |-> "a"], [id |-> "a", severity |-> "low"],
                     [id |-> "a", severity |-> "critical"]>>
  /\ ret.counts = [s \in {"high", "medium", "low"} |-> IF s = "low" THEN 2 ELSE 0]

\* the derived snapshot of the call: the profile generate_risk_alerts builds
\* from its arguments
DerivedSnapshot ==
  [credit_score |-> call.credit_score, monthly_income |-> call.monthly_income,
   monthly_expenses |-> call.monthly_expenses, existing_emis |-> call.existing_emis,
   credit_utilization |-> call.credit_utilization, active_loans |-> call.active_loans,
   score_trend |-> call.score_trend,
   emi_ratio |->
     IF RLess(RInt(0), call.monthly_income)
     THEN Derived(RMul(RDiv(call.existing_emis, call.monthly_income), RInt(100)),
                  call.float_err[1])
     ELSE Derived(RInt(100), 0),
   disposable_pct |->
     IF RLess(RInt(0), call.monthly_income)
     THEN Derived(RMul(RDiv(RSub(RSub(call.monthly_income, call.monthly_expenses),
                                 call.existing_emis),
                            call.monthly_income), RInt(100)),
                  call.float_err[2])
     ELSE Derived(RInt(0), 0)]

\* the alert of the rule id is in the result
Alerted(id) == \E i \in 1..Len(ret.alerts) : ret.alerts[i].id = id

\* C21: in generate_risk_alerts a rule whose predicate or description
\* rendering raises is skipped on its own: the call still returns normally,
\* and every other rule of the catalog is still evaluated and, if its
\* predicate holds, still appears in the result.  (Rendering formats numbers
\* and never raises on them; the predicates of low_credit_score and
\* healthy_finances raise on a credit score of None.)
C21_RaisingRuleSkippedAlone ==
  call.fn = "generate_risk_alerts" =>
    /\ ret.raised = "none"
    /\ \A k \in 1..Len(RISK_RULES) :
         IF check_raises(RISK_RULES[k].id, DerivedSnapshot)
         THEN ~Alerted(RISK_RULES[k].id)
         ELSE check(RISK_RULES[k].id, DerivedSnapshot) => Alerted(RISK_RULES[k].id)

\* the credit score is None: low_credit_score raises and is skipped, the
\* rules behind it in the catalog still trigger
C21_Witness ==
  /\ call.fn = "generate_risk_alerts"
  /\ call.credit_score.none
  /\ check_raises("low_credit_score", DerivedSnapshot)
  /\ ~Alerted("low_credit_score")
  /\ Alerted("high_emi_burden")
  /\ Alerted("multiple_active_loans")
  /\ Alerted("score_improvement")

\* C27: the rules triggered in one result of generate_risk_alerts agree
\* with each other: very_high_emi comes with high_emi_burden,
\* very_high_utilization with high_credit_utilization; healthy_finances
\* comes with neither high_emi_burden nor low_credit_score, and
\* optimal_utilization not with high_credit_utilization.
C27_TriggeredRulesConsistent ==
  call.fn \in {"generate_risk_alerts", "generate_risk_alerts_again"} =>
    /\ Alerted("very_high_emi") => Alerted("high_emi_burden")
    /\ Alerted("very_high_utilization") => Alerted("high_credit_utilization")
    /\ Alerted("healthy_finances")
         => ~Alerted("high_emi_burden") /\ ~Alerted("low_credit_score")
    /\ Alerted("optimal_utilization") => ~Alerted("high_credit_utilization")

\* both pairs of escalating rules in one result, with a low credit score;
\* neither of the two favourable rules is with them
C27_Witness ==
  /\ call.fn = "generate_risk_alerts"
  /\ Alerted("very_high_emi") /\ Alerted("high_emi_burden")
  /\ Alerted("very_high_utilization") /\ Alerted("high_credit_utilization")
  /\ Alerted("low_credit_score")
  /\ ~Alerted("healthy_finances") /\ ~Alerted("optimal_utilization")

\* the conditions of the ten rules on a numeric derived snapshot s
RuleCondition(id, s) ==
  CASE id = "high_emi_burden" -> FloatGt(s.emi_ratio, 40)
    [] id = "very_high_emi" -> FloatGt(s.emi_ratio, 60)
    [] id = "high_credit_utilization" -> s.credit_utilization > 60
    [] id = "very_high_utilization" -> s.credit_utilization > 80
    [] id = "low_credit_score" -> s.credit_score.v < 600
    [] id = "multiple_active_loans" -> s.active_loans > 3
    [] id = "low_disposable_income" -> FloatLt(s.disposable_pct, 20)
    [] id = "score_improvement" -> s.score_trend > 30
    [] id = "healthy_finances" -> FloatLt(s.emi_ratio, 30) /\ s.credit_score.v > 750
    [] id = "optimal_utilization" -> s.credit_utilization \in 10..30

\* C22: for every numeric snapshot, generate_risk_alerts returns an alert for
\* a rule if and only if that rule's condition holds on the derived snapshot
\* (emi_ratio 100 and disposable_pct 0 for income <= 0), each rule at most
\* once, with is_active true; no triggered rule is lost to a rendering
\* failure.
C22_AlertIffConditionHolds ==
  (call.fn = "generate_risk_alerts" /\ ~call.credit_score.none) =>
    /\ ret.raised = "none"
    /\ \A k \in 1..Len(RISK_RULES) :
         Alerted(RISK_RULES[k].id) <=> RuleCondition(RISK_RULES[k].id, DerivedSnapshot)
    /\ \A i \in 1..Len(ret.alerts) :
         /\ ret.alerts[i].is_active = TRUE
         /\ \E k \in 1..Len(RISK_RULES) : RISK_RULES[k].id = ret.alerts[i].id
         /\ \A j \in 1..Len(ret.alerts) : ret.alerts[j].id = ret.alerts[i].id => j = i

\* no income: emi_ratio is 100 and disposable_pct 0, so both EMI rules and
\* low_disposable_income trigger; the utilization is at the end of its
\* optimal range
C22_Witness ==
  /\ call.fn = "generate_risk_alerts"
  /\ ~call.credit_score.none
  /\ call.monthly_income = RInt(0)
  /\ call.credit_utilization = 30
  /\ Alerted("very_high_emi")
  /\ Alerted("low_disposable_income")
  /\ Alerted("optimal_utilization")
  /\ ~Alerted("healthy_finances")

\* an alert without the reading of the clock
Undated(alert) ==
  [id |-> alert.id, title |-> alert.title, description |-> alert.description,
   severity |-> alert.severity, rule |-> alert.rule]

C14_UnknownActionNotFound ==
  /\ (call.fn = "simulate_action" /\ call.action_id \notin KnownActionIds)
       => ret.result = NotFound
  /\ (call.fn = "run_simulation" /\ call.action_id \notin KnownActionIds)
       => ret.status = 404

C14_Witness ==
  /\ call.fn = "run_simulation"
  /\ call.action_id = "unknown_action"
  /\ call.current_score = PyInt(700)
  /\ ret.status = 404

\* the impact the catalog lists for an action id
ImpactOf(action_id) ==
  SIMULATION_ACTIONS[CHOOSE i \in 1..Len(SIMULATION_ACTIONS) :
                       SIMULATION_ACTIONS[i].id = action_id].impact

\* C15: for every catalog action and every integer current_score,
\* projected_score = min(900, max(300, current_score + impact)): within
\* 300..900, equal to current_score + impact when that is in range (close_loan
\* at 700 gives 715); current_score is returned unchanged.
C15_ProjectedScoreClamped ==
  (call.fn = "simulate_action" /\ call.action_id \in KnownActionIds) =>
    /\ ~ret.result.none
    /\ ret.result.current_score = call.current_score
    /\ ret.result.projected_score \in 300..900
    /\ ret.result.projected_score
         = Min(900, Max(300, call.current_score + ImpactOf(call.action_id)))
    /\ (call.current_score + ImpactOf(call.action_id)) \in 300..900
         => ret.result.projected_score = call.current_score + ImpactOf(call.action_id)
    /\ (call.action_id = "close_loan" /\ call.current_score = 700)
         => ret.result.projected_score = 715

\* a score above the domain with a positive impact: clamped down to 900
C15_Witness ==
  /\ call.fn = "simulate_action"
  /\ call.action_id = "reduce_utilization"
  /\ call.current_score = 1000
  /\ ret.result.projected_score = 900
  /\ ret.result.current_score = 1000


\* the four recommendation texts
TextVeryHigh == "This EMI is very high relative to your income. Consider a smaller loan amount or longer tenure to reduce monthly payments."
TextExtendTenure == "Consider extending tenure to reduce EMI. This loan may strain your monthly budget."
TextLessRoom == "This loan is affordable but leaves less room for savings. Consider a smaller amount if possible."
TextFitsWell == "This loan fits well within your budget. You have healthy financial headroom."

\* the text the thresholds 50, 40 and 30 select for a ratio
SelectsByThreshold(text, ratio) ==
  /\ RLess(RInt(50), ratio) <=> text = TextVeryHigh
  /\ (RLess(RInt(40), ratio) /\ RLeq(ratio, RInt(50))) <=> text = TextExtendTenure
  /\ (RLess(RInt(30), ratio) /\ RLeq(ratio, RInt(40))) <=> text = TextLessRoom
  /\ RLeq(ratio, RInt(30)) <=> text = TextFitsWell

\* the profile a playground call works with
PlaygroundProfile ==
  resolve_profile(call.request, call.profile_data, call.score_data, call.fail)

\* C16: get_loan_recommendation selects exactly one of the four fixed texts
\* by strict thresholds on the EMI ratio (above 50, above 40 up to 50, above
\* 30 up to 40, at most 30), and the loan playground applies it to the new
\* EMI ratio, the ratio of the existing EMIs plus the new EMI to the income.
C16_RecommendationByStrictThresholds ==
  /\ call.fn = "get_loan_recommendation" =>
       /\ ret.raised = "none"
       /\ SelectsByThreshold(ret.str, call.emi_ratio)
  /\ (call.fn = "calculate_loan" /\ ret.status = 200) =>
       /\ ret.new_total_emi = RAdd(RInt(PlaygroundProfile.existing_emis), ret.emi)
       /\ IF PlaygroundProfile.monthly_income <= 0
          THEN ret.new_emi_ratio = RInt(100)
          ELSE IsNearestHundredth(ret.new_emi_ratio,
                 RMul(RDiv(ret.new_total_emi, RInt(PlaygroundProfile.monthly_income)),
                      RInt(100)))
       /\ SelectsByThreshold(ret.recommendation, ret.new_emi_ratio)

\* a ratio of exactly 40 still gets the "less room" text, and a playground
\* loan that lifts the EMIs above half the income gets the "very high" text
C16_Witness ==
  \/ /\ call.fn = "get_loan_recommendation"
     /\ call.emi_ratio = RInt(40)
     /\ ret.str = TextLessRoom
  \/ /\ call.fn = "calculate_loan"
     /\ ret.status = 200
     /\ PlaygroundProfile.monthly_income = 40000
     /\ RLess(RInt(50), ret.new_emi_ratio)
     /\ RLess(ret.new_emi_ratio, RInt(100))
     /\ ret.recommendation = TextVeryHigh


(***************************************************************************)
(* Properties of the identity the routes work for.                         *)
(***************************************************************************)
\* the string an Authorization header carries as its token
Carried(authorization) ==
  IF authorization.parts[1] = BearerPrefix THEN without_bearer(authorization.parts)
  ELSE joined(authorization.parts)

\* the token is one the settings' key signed by the settings' algorithm,
\* not expired at the time now, with no subject that is not a string
Validates(token, now) ==
  /\ token.text = "jws"
  /\ token.key = jwt_secret_key
  /\ token.alg = jwt_algorithm
  /\ token.claims.exp >= now
  /\ token.claims.sub.present => token.claims.sub.is_str

\* the header is absent or empty
NoHeader(authorization) == authorization.none \/ authorization.parts = <<>>

\* C17: the route-layer get_current_user_id never fails: it returns "1"
\* when the Authorization header is absent, empty, or carries a token that
\* does not validate or has no subject, and otherwise the token's subject.
C17_IdentityOrOne ==
  call.fn = "get_current_user_id" =>
    /\ ret.raised = "none"
    /\ IF \/ NoHeader(call.authorization)
          \/ ~Validates(Carried(call.authorization), call.now)
          \/ ~Carried(call.authorization).claims.sub.present
       THEN ret.str = "1"
       ELSE ret.str = Carried(call.authorization).claims.sub.text

\* C17, amended: a token whose subject is the empty string is answered
\* with "1" as well.
C17_IdentityOrOneForEmptySubject ==
  call.fn = "get_current_user_id" =>
    /\ ret.raised = "none"
    /\ IF \/ NoHeader(call.authorization)
          \/ ~Validates(Carried(call.authorization), call.now)
          \/ ~Carried(call.authorization).claims.sub.present
          \/ Carried(call.authorization).claims.sub.text = ""
       THEN ret.str = "1"
       ELSE ret.str = Carried(call.authorization).claims.sub.text

\* a valid token for user 42 after "Bearer ", and one whose subject is empty
C17_Witness ==
  /\ call.fn = "get_current_user_id"
  /\ ~NoHeader(call.authorization)
  /\ call.authorization.parts[1] = BearerPrefix
  /\ Validates(Carried(call.authorization), call.now)
  /\ \/ Carried(call.authorization).claims.sub = StrSub("42") /\ ret.str = "42"
     \/ Carried(call.authorization).claims.sub = StrSub("") /\ ret.str = "1"


(***************************************************************************)
(* Properties of password hashing.                                         *)
(***************************************************************************)
\* the bytes are the encoding of the first characters of the password
OnCharacterBoundary(password_bytes, password) ==
  \E n \in 0..Len(password) : password_bytes = encode_utf8(SubSeq(password, 1, n))

\* a non-empty password is verified against the hash made of it
VerifiesOwnHash ==
  /\ call.fn = "verify_password"
  /\ call.plain_password = call.hashed_from
  /\ call.plain_password # <<>>

\* every non-empty password verifies against its own hash, hashing and
\* verification working on the same at most 72 bytes
PasswordRoundTrip ==
  VerifiesOwnHash =>
    /\ ret.ok
    /\ verify_password_bytes(call.plain_password) = call.hashed_password.digest
    /\ Len(call.hashed_password.digest) <= BcryptLimit

\* C19: for every non-empty password p, of any length, longer than 72 bytes
\* and multi-byte ones included, verify_password(p, hash_password(p)) is
\* true: hashing and verification apply the same truncation to at most 72
\* bytes on a character boundary.
C19_PasswordRoundTripOnCharacterBoundary ==
  VerifiesOwnHash =>
    /\ ret.ok
    /\ verify_password_bytes(call.plain_password) = call.hashed_password.digest
    /\ Len(call.hashed_password.digest) <= BcryptLimit
    /\ OnCharacterBoundary(call.hashed_password.digest, call.plain_password)


(***************************************************************************)
(* Properties of the bearer tokens.                                        *)
(***************************************************************************)
\* the time up to which create_access_token means its token to be valid:
\* the value of its variable expire
ExpiryOf(origin) ==
  origin.now + (IF ~origin.expires_delta.none /\ origin.expires_delta.v # 0
                THEN origin.expires_delta.v
                ELSE 60 * jwt_access_token_expire_minutes)

\* the presented string is empty, malformed, wrongly signed, or a token of
\* which the exp claim has passed
Unacceptable(token, now) ==
  \/ token.text # "jws"
  \/ token.key # jwt_secret_key
  \/ token.alg # jwt_algorithm
  \/ token.claims.exp < now

\* the round trip by the exp claim the token carries: a token made for the
\* subject s decodes to s as long as its exp claim has not passed, and
\* get_token_data answers None, raising nothing, for an unacceptable string
TokenRoundTripByExpClaim ==
  /\ (call.fn = "decode_token" /\ call.origin.made /\ call.now <= call.token.claims.exp) =>
       /\ ret.raised = "none"
       /\ ret.payload.sub = call.origin.sub
  /\ (call.fn = "get_token_data" /\ call.origin.made /\ call.now <= call.token.claims.exp) =>
       ret.token_data = SomeStr(call.origin.sub.text)
  /\ (call.fn = "get_token_data" /\ Unacceptable(call.token, call.now)) =>
       /\ ret.raised = "none"
       /\ ret.token_data = NoneStr

\* C20: for every subject string s, a token made by create_access_token for
\* s decodes, before its expiry, to a payload whose sub is s, and
\* get_token_data of that token returns s; get_token_data returns None
\* rather than raising for an empty, malformed, wrongly signed or expired
\* token.
C20_TokenRoundTrip ==
  /\ (call.fn = "decode_token" /\ call.origin.made /\ call.now <= ExpiryOf(call.origin)) =>
       /\ ret.raised = "none"
       /\ ret.payload.sub = call.origin.sub
  /\ (call.fn = "get_token_data" /\ call.origin.made /\ call.now <= ExpiryOf(call.origin)) =>
       ret.token_data = SomeStr(call.origin.sub.text)
  /\ (call.fn = "get_token_data"
        /\ \/ Unacceptable(call.token, call.now)
           \/ call.origin.made /\ call.now > ExpiryOf(call.origin)) =>
       /\ ret.raised = "none"
       /\ ret.token_data = NoneStr


\* the entries of the catalog with the id
EntriesWithId(action_id) ==
  {i \in 1..Len(SIMULATION_ACTIONS) : SIMULATION_ACTIONS[i].id = action_id}

\* C23: every entry of SIMULATION_ACTIONS has direction "up" iff its impact
\* is positive and "down" iff it is negative (no entry has impact 0), action
\* ids are pairwise distinct, and every simulate_action result carries the
\* impact and direction of the catalog entry with the requested id.
C23_DirectionAgreesWithImpact ==
  /\ \A i \in 1..Len(SIMULATION_ACTIONS) :
       /\ SIMULATION_ACTIONS[i].impact # 0
       /\ SIMULATION_ACTIONS[i].direction = "up" <=> SIMULATION_ACTIONS[i].impact > 0
       /\ SIMULATION_ACTIONS[i].direction = "down" <=> SIMULATION_ACTIONS[i].impact < 0
       /\ EntriesWithId(SIMULATION_ACTIONS[i].id) = {i}
  /\ (call.fn = "simulate_action" /\ EntriesWithId(call.action_id) # {}) =>
       /\ ~ret.result.none
       /\ \A i \in EntriesWithId(call.action_id) :
            /\ ret.result.impact = SIMULATION_ACTIONS[i].impact
            /\ ret.result.direction = SIMULATION_ACTIONS[i].direction

\* an action that would lift a score of 900: the projection is clamped and
\* equals the current score, the direction is still "up"
C23_Witness ==
  /\ call.fn = "simulate_action"
  /\ call.action_id = "reduce_utilization"
  /\ call.current_score = 900
  /\ ret.result.projected_score = 900
  /\ ret.result.impact = 20
  /\ ret.result.direction = "up"


(***************************************************************************)
(* C24: the core keeps no state across calls.                              *)
(***************************************************************************)
\* the value the function gives for the arguments of a frame, computed on
\* its own from the static catalogs
ResultOfArguments(frame) ==
  CASE frame.fn = "generate_risk_alerts" ->
         generate_risk_alerts(frame.args.credit_score, frame.args.monthly_income,
                              frame.args.monthly_expenses, frame.args.existing_emis,
                              frame.args.credit_utilization, frame.args.active_loans,
                              frame.args.score_trend, frame.now,
                              frame.args.float_err[1], frame.args.float_err[2])
    [] frame.fn = "get_alert_counts" -> get_alert_counts(frame.args.alerts)
    [] frame.fn = "get_simulation_action" -> get_simulation_action(frame.args.action_id)
    [] frame.fn = "simulate_action" ->
         simulate_action(frame.args.action_id, frame.args.current_score)

\* C24: whatever calls of generate_risk_alerts, get_alert_counts,
\* get_simulation_action and simulate_action have run or are running, and
\* however their steps interleave, the catalogs RISK_RULES and
\* SIMULATION_ACTIONS are as they were loaded, and every call that has
\* returned has returned the value of the function for its own arguments
\* (and its own reading of the clock).
C24_CoreCallsArePure ==
  /\ catalogs = StaticCatalogs
  /\ \A t \in Threads :
       threads[t].pc = "returned" => Result(threads[t]) = ResultOfArguments(threads[t])

\* a call of generate_risk_alerts that began while the other thread was
\* inside a call with other arguments, and returned alerts while that call
\* was still in its loop with alerts of its own
C24_Witness ==
  /\ threads[1].fn = "generate_risk_alerts" /\ threads[1].pc = "returned"
  /\ threads[1].overlaps /\ Len(threads[1].alerts) >= 2
  /\ threads[2].fn = "generate_risk_alerts" /\ threads[2].pc = "loop"
  /\ threads[2].args # threads[1].args
  /\ Len(threads[2].alerts) >= 1 /\ threads[2].i <= Len(catalogs.RISK_RULES)


(***************************************************************************)
(* C25: the Credit Health Index is monotone in each of its arguments.      *)
(***************************************************************************)
\* C25: calculate_chi never gives less when credit_score is raised, and
\* never gives more when emi_to_income_ratio, active_loans or
\* missed_payments is raised, the other arguments staying as they were; and
\* every answer of the loan playground has chi_change <= 0.
C25_ChiMonotone ==
  /\ call.fn = "calculate_chi_again" =>
       IF call.raised = "credit_score" THEN ret.int >= call.first
                                       ELSE ret.int <= call.first
  /\ (call.fn = "calculate_loan" /\ ret.status = 200) =>
       /\ ret.chi_change = ret.new_chi - ret.current_chi
       /\ ret.chi_change <= 0

\* a second call with the ratio raised beyond 100 %, where the clamp of the
\* EMI component holds the index where the first call left it
C25_Witness ==
  /\ call.fn = "calculate_chi_again" /\ call.raised = "emi_to_income_ratio"
  /\ RLess(RInt(100), call.emi_to_income_ratio)
  /\ ret.int = call.first


(***************************************************************************)
(* C26: the overrides of a playground request.                             *)
(***************************************************************************)
PlaygroundFields ==
  {"monthly_income", "monthly_expenses", "existing_emis", "credit_score", "active_loans"}

\* the profile the request asks the calculation to be made with: every
\* override it carries, and for the fields it leaves absent what the handler
\* takes from the store or from DEFAULT_USER
AskedProfile ==
  [f \in PlaygroundFields |->
     IF call.request[f].none
     THEN resolve_profile(call.request, call.profile_data, call.score_data, call.fail)[f]
     ELSE call.request[f].v]

\* the answer is the one computed from the profile p
AnsweredFrom(p) ==
  /\ ret.new_total_emi = RAdd(RInt(p.existing_emis), ret.emi)
  /\ \E err1 \in FloatErr, err2 \in FloatErr :
       /\ ret.current_chi
            = calculate_chi(p.credit_score,
                            calculate_emi_to_income_ratio(RInt(p.existing_emis),
                                                          RInt(p.monthly_income), err1).value,
                            p.active_loans, 0, err2)
       /\ ret.new_chi
            = calculate_chi(p.credit_score,
                            calculate_emi_to_income_ratio(ret.new_total_emi,
                                                          RInt(p.monthly_income), err1).value,
                            p.active_loans + 1, 0, err2)

\* an answer of the playground to a request none of whose overrides is 0
NonZeroOverrides ==
  /\ call.fn = "calculate_loan" /\ ret.status = 200
  /\ \A f \in PlaygroundFields : call.request[f].none \/ call.request[f].v # 0

\* the overrides other than 0 are the values used
NonZeroOverridesAreUsed == NonZeroOverrides => AnsweredFrom(AskedProfile)

\* C26: in the loan playground every profile override present in the request
\* is the value the calculation uses, an override equal to 0 included; a
\* stored value or a default is used only for a field the request leaves
\* absent.
C26_OverridesAreUsed ==
  (call.fn = "calculate_loan" /\ ret.status = 200) => AnsweredFrom(AskedProfile)


(***************************************************************************)
(* C28: the Credit Health Index of the dashboard and of the playground.    *)
(***************************************************************************)
\* the playground has answered a request without overrides from the rows
\* GET /api/chi/current has just answered from
BothAnswered ==
  call.fn = "calculate_loan_after_chi" /\ call.chi.status = 200 /\ ret.status = 200

StoredIncome ==
  IF call.fail \in {"none", "score_query"} /\ Len(call.profile_data) > 0
  THEN call.profile_data[1].monthly_income ELSE 85000

\* with a positive income the two ratios differ by the rounding to two
\* decimals only, which moves the index of none of the stored profiles
SameCurrentChiWithIncome ==
  (BothAnswered /\ StoredIncome > 0) => ret.current_chi = call.chi.chi_score

\* C28: for the same stored profile and latest credit score, and a
\* playground request without overrides, the chi_score of GET
\* /api/chi/current equals the current_chi of POST
\* /api/loans/playground/calculate, a stored monthly_income of 0 included.
C28_SameCurrentChi ==
  BothAnswered => ret.current_chi = call.chi.chi_score


(***************************************************************************)
(* C29: concurrent signups.                                                *)
(***************************************************************************)
\* a signup answered with 400 has added nothing
RejectedSignupInsertsNothing ==
  \A w \in Workers :
    (requests[w].op = "signup" /\ requests[w].pc = "done" /\ requests[w].status = 400)
      => requests[w].user_id = NoneStr

\* C29: however concurrent signup requests interleave, the users collection
\* holds at most one record per email: a signup for an email that is
\* already registered is answered 400 and inserts neither a user nor a
\* profile.
C29_OneUserPerEmail ==
  /\ \A r1 \in users, r2 \in users : r1.email = r2.email => r1 = r2
  /\ RejectedSignupInsertsNothing

(***************************************************************************)
(* C30: whose account DELETE /api/users/me deletes.                        *)
(***************************************************************************)
\* the token of the request is valid and names the subject id
Authenticates(request, id) ==
  /\ ~NoHeader(request.authorization)
  /\ Validates(Carried(request.authorization), request.now)
  /\ Carried(request.authorization).claims.sub.present
  /\ Carried(request.authorization).claims.sub.text = id

\* a request with a valid token for a subject other than the empty string
\* deletes no record but the one of that subject
AuthenticatedDeletesOwnRecord ==
  \A w \in Workers :
    (requests[w].op = "delete" /\ \E id \in StoreIds : Authenticates(requests[w], id))
      => \A r \in requests[w].deleted : Authenticates(requests[w], r.id)

====
